---- MODULE Spec2Model ----
(***************************************************************************)
(* Model of AbstractCardiacProblem (heart/src/problem): the orchestrator   *)
(* that owns the cardiac solve loop, its field vectors, the solver handle  *)
(* and the HDF5 checkpoint writer.                                         *)
(*                                                                         *)
(* Times are integers (ticks).  A PETSc Vec is an allocation id 1..n, with *)
(* 0 for a null Vec; vecDestroys[v] counts the PetscTools::Destroy calls   *)
(* made on allocation v.  Pointers to objects are "null", "live" or        *)
(* "dangling" (deleted, pointer not reset).                                *)
(***************************************************************************)
EXTENDS Integers, Sequences, FiniteSets, TLC

\* ------------------------------------------------------------------ bounds
MaxEndTime == 3
MaxVecs == 5
NumProcs == 2
MaxStops == 2
MaxTissues == 3
MaxDefaults == 2
NumNodes == 2
MaxProblemDim == 3
NumCryptNodes == 2
MaxCells == 4
MaxTimeSteps == 2
MaxT1Swaps == 3
MaxVisits == 3
MaxMeshNodes == 2
MaxMeshElements == 2

VARIABLES
  ndebug,                \* the build: TRUE when asserts are compiled out
  pc,                    \* "idle", "loop" (inside Solve), "destroyed", "aborted"
  \* HeartConfig as the last Solve() call found it
  endTime,               \* HeartConfig::GetSimulationDuration()
  pdeStep,               \* HeartConfig::GetPdeTimeStep()
  printStep,             \* HeartConfig::GetPrintingTimeStep()
  outputDirectory,       \* HeartConfig::GetOutputDirectory(): "" or "dir"
  mPrintOutput,
  mpMesh,                \* "null", "own" (built from config), "caller"
  mAllocatedMemoryForMesh,
  mpCardiacTissue,       \* "null", "live", "dangling"
  mpBoundaryConditionsContainer,  \* "null", "default", "caller"
  mpDefaultBoundaryConditionsContainer,  \* the default container it holds: the
                         \* number of defaults built so far, 0 for none
  mpSolver,              \* "null", "live", "dangling"
  mSolution,             \* Vec id, 0 = nullptr
  mCurrentTime,
  mpWriter,              \* "null", "open"
  initial_condition,     \* local of Solve(): Vec id
  stepperTime,           \* local of Solve(): stepper.GetTime()
  vecDestroys,           \* sequence: destroy count of each allocated Vec
  fileExists,            \* the .h5 checkpoint file exists in the output directory
  fileTimes,             \* its rows: the values of the unlimited (time) dimension
  \* ---- observations of the last Solve() call, not program state
  lastOutcome,           \* how it ended ("none": another call was made since)
  calls,                 \* calls made by the last step of Solve(), in program order
  fileAtOpen,            \* the file's rows when this Solve() had opened its writer
  openMode,              \* "none", "define", "extend": how the writer was constructed
  initialRow,            \* the initial-condition row this Solve() wrote, if any
  committedTimes,        \* stepper times committed by this Solve(), in order
  solveLog,              \* <<call, time, Vec>> of the hooks called, the modifier
                         \* notifications and the rows written by this Solve()
  solverLeaked,          \* a live solver was lost (pointer overwritten or never deleted)
  writerLeaked,          \* an open writer was lost
  \* ---- a run of Solve() by a group of processes (SpecParallel)
  runResumed,            \* every process holds a solution retained from a prior run
  sharedExists,          \* the checkpoint file exists in the shared file system
  sharedTimes,           \* its rows
  procPc,                \* where each process is in Solve()
  procTime,              \* mCurrentTime of each process
  procExtend,            \* extend_file as each process decided it: "none" before
  procCalls,             \* the collective calls each process has entered, in order
  procOutcomes,          \* how mpSolver->Solve() ended on each process, per iteration
  \* ---- a TimeStepper on its own (SpecTimeStepper)
  tsArgs,                \* what it was constructed with; end 0: not constructed
  tsTime,                \* GetTime()
  tsVisited,             \* the times AdvanceOneTimeStep() has reached, in order
  \* ---- the objects the problem creates and deletes (SpecOwnership)
  tissues,               \* number of deletes of each tissue CreateCardiacTissue()
                         \* returned; mpCardiacTissue points to the last one
  meshes,                \* number of deletes of each mesh created at line 216;
                         \* an "own" mpMesh points to the last one
  meshHalfBuilt,         \* mpMesh is a mesh whose construction threw
  callerMeshDeleted,     \* the problem deleted the mesh given to SetMesh()
  \* ---- the data of a run and of its checkpoint (SpecInitialCondition,
  \* ---- SpecColumns, SpecOrdering)
  problemDim,            \* PROBLEM_DIM of the problem; 0: no cell factory yet
  cellVoltage,           \* GetCardiacCell(n)->GetVoltage() of each node
  nodeRegion,            \* "tissue" or "bath", of each node of the mesh
  permutationApplies,    \* the mesh has a node permutation a writer can apply
  vecData,               \* what each Vec holds: per node, its stacked unknowns;
                         \* <<>> for a vector the solver returned
  outputVariables,       \* HeartConfig::GetOutputVariables() as this Solve() found it
  postProcessingRequested,  \* HeartConfig::IsPostProcessingRequested(), likewise
  originalNodeOrdering,  \* HeartConfig::GetOutputUsingOriginalNodeOrdering()
  orderingRequested,     \* what the caller last set that flag to
  orderingOutcome,       \* lines 875-881 in this Solve(): "none" before
  fileColumns,           \* the names of the columns of the checkpoint file, by id
  fileDerived,           \* the file holds the post-processing datasets
  mVoltageColumnId,
  mExtraVariablesId,
  rowsPut,               \* the PutVector calls of the last WriteOneStep()
  cellQueries,           \* the GetAnyVariable calls of the last WriteOneStep()
  convertedOutput,       \* the visualiser files in the output directory
  \* ---- the vertex crypt simulation
  nodeLocations,         \* rGetLocation() of each node of the tissue: <<x, y>>
  old_node_locations,    \* the locations before UpdateNodePositions()
  forces,                \* the forces UpdateNodePositions() was given
  mDt,                   \* the time step of the simulation
  \* ---- CloseFilesAndPostProcess() step by step
  closeConfig,           \* mPrintOutput, HeartConfig and mNodesToOutput as the
                         \* running Solve() found them
  closeWriter,           \* mpWriter: "null" or "open"
  closePath,             \* "none", "solving", "completed", "failed"
  closeLog,              \* what the last CloseFilesAndPostProcess() did, in order
  \* ---- the volume-tracked off-lattice simulation
  simPhase,              \* "none", "constructed", "loop" (between time steps),
                         \* "stepped" (a time step has moved and divided cells)
  population,            \* mrCellPopulation: its kind, its cells, the version of
                         \* its geometry, the version Update() has caught up with,
                         \* the version and the cells of its Voronoi tessellation
  cellData,              \* item 0 of the CellData of each cell
  refreshLog,            \* what the last UpdateCellData() called, in order
  \* ---- the T1-swap-locations writer
  visitedPopulation,     \* the kind of cell population the writer visits
  mLocationsOfT1Swaps,   \* the vertex mesh's list of T1 swap locations
  outStream,             \* *mpOutStream: the records written, one per Visit()
  swapHistory,           \* history: every T1 swap location, in order
  visits,                \* history: the number of Visit() calls
  \* ---- the archive of the cylindrical vertex mesh
  archivePhase,          \* "none", "built", "saved", "loaded", "archive_exception"
  p_mesh,                \* the Cylindrical2dVertexMesh of the simulation
  archive,               \* the archive: the values written, in order
  r_mesh                 \* the mesh of the loaded simulation

cfgVars == <<endTime, pdeStep, printStep, outputDirectory>>
meshVars == <<mpMesh, mAllocatedMemoryForMesh>>
fileVars == <<fileExists, fileTimes>>
localVars == <<initial_condition, stepperTime>>
histVars == <<fileAtOpen, openMode, initialRow, committedTimes, solveLog>>
leakVars == <<solverLeaked, writerLeaked>>
tsVars == <<tsArgs, tsTime, tsVisited>>
bccVars == <<mpBoundaryConditionsContainer, mpDefaultBoundaryConditionsContainer>>
ownVars == <<tissues, meshes, meshHalfBuilt, callerMeshDeleted>>
dataVars == <<problemDim, cellVoltage, nodeRegion, permutationApplies, vecData,
              outputVariables, postProcessingRequested, originalNodeOrdering,
              orderingRequested, orderingOutcome, fileColumns, fileDerived,
              mVoltageColumnId, mExtraVariablesId, rowsPut, cellQueries,
              convertedOutput>>
cryptVars == <<nodeLocations, old_node_locations, forces, mDt>>
closeVars == <<closeConfig, closeWriter, closePath, closeLog>>
volVars == <<simPhase, population, cellData, refreshLog>>
t1Vars == <<visitedPopulation, mLocationsOfT1Swaps, outStream, swapHistory, visits>>
archiveVars == <<archivePhase, p_mesh, archive, r_mesh>>
componentVars == <<closeVars, volVars, t1Vars, archiveVars>>
sideVars == <<ownVars, dataVars, cryptVars, componentVars>>
parVars == <<runResumed, sharedExists, sharedTimes, procPc, procTime, procExtend,
             procCalls, procOutcomes>>

vars == <<ndebug, pc, endTime, pdeStep, printStep, outputDirectory, mPrintOutput,
          mpMesh, mAllocatedMemoryForMesh, mpCardiacTissue,
          bccVars, mpSolver, mSolution, mCurrentTime,
          mpWriter, initial_condition, stepperTime, vecDestroys, fileExists,
          fileTimes, lastOutcome, calls, fileAtOpen, openMode, initialRow,
          committedTimes, solveLog, solverLeaked, writerLeaked, parVars, tsVars,
          sideVars>>

\* ----------------------------------------------------------------- helpers
Min(a, b) == IF a <= b THEN a ELSE b

Last(s) == s[Len(s)]

\* round(a / b) for positive integers (std::round: halves away from zero)
Round(a, b) == (2 * a + b) \div (2 * b)

\* PetscTools::Destroy(v): one more destroy of allocation v (the count stops
\* at 2: destroyed more than once)
Destroyed(counts, v) == [counts EXCEPT ![v] = Min(@ + 1, 2)]

\* a new allocation: its id is the next index
NewVec(counts) == Len(counts) + 1

Allocated(counts) == Append(counts, 0)

IsLive(v) == v # 0 /\ v <= Len(vecDestroys) /\ vecDestroys[v] = 0

\* ------------------------------------------------------------------- Init
Init ==
  /\ ndebug \in BOOLEAN
  /\ pc = "idle"
  /\ endTime = 1 /\ pdeStep = 1 /\ printStep = 1 /\ outputDirectory = "dir"
  /\ mPrintOutput = TRUE
  /\ mpMesh = "null" /\ mAllocatedMemoryForMesh = FALSE
  /\ mpCardiacTissue = "null"
  /\ mpBoundaryConditionsContainer = "null"
  /\ mpDefaultBoundaryConditionsContainer = 0
  /\ mpSolver = "null"
  /\ mSolution = 0 /\ mCurrentTime = 0
  /\ mpWriter = "null"
  /\ initial_condition = 0 /\ stepperTime = 0
  /\ vecDestroys = <<>>
  /\ fileExists = FALSE /\ fileTimes = <<>>
  /\ lastOutcome = "none" /\ calls = <<>>
  /\ fileAtOpen = <<>> /\ openMode = "none" /\ initialRow = <<>>
  /\ committedTimes = <<>>
  /\ solveLog = <<>>
  /\ solverLeaked = FALSE /\ writerLeaked = FALSE
  /\ runResumed = FALSE
  /\ sharedExists = FALSE /\ sharedTimes = <<>>
  /\ procPc = [p \in 1..NumProcs |-> "idle"]
  /\ procTime = [p \in 1..NumProcs |-> 0]
  /\ procExtend = [p \in 1..NumProcs |-> "none"]
  /\ procCalls = [p \in 1..NumProcs |-> <<>>]
  /\ procOutcomes = [p \in 1..NumProcs |-> <<>>]
  /\ tsArgs = [start |-> 0, end |-> 0, dt |-> 1, stops |-> <<>>]
  /\ tsTime = 0 /\ tsVisited = <<>>
  /\ tissues = <<>> /\ meshes = <<>>
  /\ meshHalfBuilt = FALSE /\ callerMeshDeleted = FALSE
  /\ problemDim = 0
  /\ cellVoltage = <<>> /\ nodeRegion = <<>> /\ permutationApplies = FALSE
  /\ vecData = <<>>
  /\ outputVariables = <<>> /\ postProcessingRequested = FALSE
  /\ originalNodeOrdering = FALSE /\ orderingRequested = FALSE
  /\ orderingOutcome = "none"
  /\ fileColumns = <<>> /\ fileDerived = FALSE
  /\ mVoltageColumnId = -1 /\ mExtraVariablesId = <<>>
  /\ rowsPut = <<>> /\ cellQueries = {}
  /\ convertedOutput = <<>>
  /\ nodeLocations = <<>> /\ old_node_locations = <<>> /\ forces = <<>>
  /\ mDt = 1
  /\ closeConfig = [print |-> TRUE, post |-> FALSE, subset |-> FALSE, formats |-> {}]
  /\ closeWriter = "null" /\ closePath = "none" /\ closeLog = <<>>
  /\ simPhase = "none"
  /\ population = [kind |-> "mesh", cells |-> {}, born |-> 0, version |-> 0,
                   updated |-> 0, tess |-> 0, tessCells |-> {}]
  /\ cellData = <<>> /\ refreshLog = <<>>
  /\ visitedPopulation = "none" /\ mLocationsOfT1Swaps = <<>>
  /\ outStream = <<>> /\ swapHistory = <<>> /\ visits = 0
  /\ archivePhase = "none" /\ archive = <<>>
  /\ p_mesh = [nodes |-> <<>>, elements |-> <<>>, mWidth |-> 0]
  /\ r_mesh = [nodes |-> <<>>, elements |-> <<>>, mWidth |-> 0]

\* ------------------------------------------------- HeartConfig and setters
\* HeartConfig keeps the PDE step a divisor of the printing step
\* (AbstractCardiacProblem.cpp:257), so only such pairs are configured.
TimeStepPairs == {<<1, 1>>, <<1, 2>>, <<2, 2>>}

\* The configurations a caller can have set in HeartConfig when it calls
\* Solve(): nothing but Solve() reads them, so they are inputs of the call.
\* An empty output directory is tried with one choice of times: the check on
\* it does not read them.
Configs ==
  [end : 1..MaxEndTime, steps : TimeStepPairs, dir : {"dir"}]
    \cup {[end |-> 1, steps |-> <<1, 1>>, dir |-> ""]}

\* HeartConfig as the Solve() being called finds it
Configured(cfg) ==
  /\ endTime' = cfg.end
  /\ pdeStep' = cfg.steps[1]
  /\ printStep' = cfg.steps[2]
  /\ outputDirectory' = cfg.dir

\* The observations of the last Solve() call (its configuration, how it ended,
\* what it wrote) are forgotten when another call is made.
ObservationsCleared ==
  /\ endTime' = 1 /\ pdeStep' = 1 /\ printStep' = 1 /\ outputDirectory' = "dir"
  /\ lastOutcome' = "none" /\ calls' = <<>>
  /\ fileAtOpen' = <<>> /\ openMode' = "none" /\ initialRow' = <<>>
  /\ committedTimes' = <<>>
  /\ solveLog' = <<>>

PrintOutput ==
  /\ pc = "idle"
  /\ mPrintOutput' = ~mPrintOutput
  /\ ObservationsCleared
  /\ UNCHANGED <<ndebug, tsVars, parVars, sideVars, pc, meshVars, mpCardiacTissue,
                 bccVars, mpSolver, mSolution, mCurrentTime,
                 mpWriter, localVars, vecDestroys, fileVars, leakVars>>

\* ------------------------------------------------------------- Initialise
\* The mesh Initialise() ends up with when acquisition succeeds (lines 121-174)
MeshAfterAcquire == IF mpMesh = "null" THEN "own" ELSE mpMesh

AllocatedAfterAcquire == IF mpMesh = "null" THEN TRUE ELSE mAllocatedMemoryForMesh

\* Whether Initialise() destroys the previous solution (line 198)
InitialiseDestroysSolution == mSolution # 0

Initialise ==
  /\ pc = "idle"
  /\ mpMesh' = MeshAfterAcquire
  /\ mAllocatedMemoryForMesh' = AllocatedAfterAcquire
  /\ mpCardiacTissue' = "live"
  /\ vecDestroys' = IF InitialiseDestroysSolution
                       THEN Destroyed(vecDestroys, mSolution) ELSE vecDestroys
  /\ mSolution' = 0
  /\ mCurrentTime' = 0
  /\ ObservationsCleared
  /\ UNCHANGED <<ndebug, tsVars, parVars, sideVars, pc, mPrintOutput, bccVars,
                 mpSolver, mpWriter, localVars, fileVars, leakVars>>

\* ------------------------------------------------------------- destructor
\* Whether the destructor destroys mSolution (line 111)
DestructorDestroysSolution == mSolution # 0

Destructor ==
  /\ pc = "idle"
  /\ pc' = "destroyed"
  /\ mpCardiacTissue' = "null"
  /\ vecDestroys' = IF DestructorDestroysSolution
                       THEN Destroyed(vecDestroys, mSolution) ELSE vecDestroys
  /\ mpMesh' = IF mAllocatedMemoryForMesh THEN "null" ELSE mpMesh
  /\ solverLeaked' = (solverLeaked \/ mpSolver = "live")
  /\ writerLeaked' = (writerLeaked \/ mpWriter = "open")
  /\ UNCHANGED <<ndebug, tsVars, parVars, sideVars, cfgVars, mPrintOutput, mAllocatedMemoryForMesh,
                 bccVars, mpSolver, mSolution, mCurrentTime,
                 mpWriter, localVars, fileVars, lastOutcome, calls, histVars>>

\* ------------------------------------------------------------ TimeStepper
\* stepper.GetNextTime(): the next regular boundary, clipped to the end
GetNextTimeStuck(t) == t

GetNextTime(t) == Min(t + printStep, endTime)

\* stepper.IsTimeAtEnd()
IsTimeAtEnd(t) == t >= endTime

\* number of stepper intervals from the current time to the end time
StepsToEnd(cfg) ==
  (cfg.end - mCurrentTime + cfg.steps[2] - 1) \div cfg.steps[2]

\* ---------------------------------------------------------- PreSolveChecks
PreSolveChecksWithoutTimeStep(cfg) ==
  /\ mpCardiacTissue # "null"
  /\ ~(cfg.end <= mCurrentTime)
  /\ ~(mPrintOutput /\ cfg.dir = "")

PreSolveChecksWithoutEndTime(cfg) ==
  /\ mpCardiacTissue # "null"
  /\ ~(mPrintOutput /\ cfg.dir = "")
  /\ ~(cfg.end - cfg.steps[1] * Round(cfg.end, cfg.steps[1]) # 0)

PreSolveChecksPass(cfg) ==
  /\ mpCardiacTissue # "null"
  /\ ~(cfg.end <= mCurrentTime)
  /\ ~(mPrintOutput /\ cfg.dir = "")
  /\ ~(cfg.end - cfg.steps[1] * Round(cfg.end, cfg.steps[1]) # 0)

\* -------------------------------------------------------- Solve(): set-up
\* line 414: the initial condition is the old solution if there is one
InitialCondition == IF mSolution # 0 THEN mSolution ELSE NewVec(vecDestroys)

VecsWithInitialCondition ==
  IF mSolution # 0 THEN vecDestroys ELSE Allocated(vecDestroys)

\* the model's cap on allocations: a Solve() starts only if its vectors fit
VecsFit(cfg) ==
  Len(vecDestroys) + StepsToEnd(cfg) + (IF mSolution # 0 THEN 0 ELSE 1) <= MaxVecs

ExtendFileIfExists == fileExists

\* lines 814-831: extend only with a retained solution and an existing file
ExtendFile == mSolution # 0 /\ fileExists

ResumeConflictNeverMet == FALSE

ResumeConflictAtEqualTime ==
  mSolution # 0 /\ fileExists /\ fileTimes # <<>>
    /\ Last(fileTimes) >= mCurrentTime

ResumeConflictReversed ==
  mSolution # 0 /\ fileExists /\ fileTimes # <<>>
    /\ Last(fileTimes) < mCurrentTime

\* line 839: the stored checkpoint is ahead of the resume time
ResumeConflict ==
  ExtendFile /\ fileTimes # <<>> /\ Last(fileTimes) > mCurrentTime

RowsClearedAtOpen == <<>>

\* lines 850-856: the writer clears the directory unless it extends the file;
\* in extend mode the rows of the file are kept
RowsKeptAtOpen == IF ExtendFile THEN fileTimes ELSE <<>>

\* line 449: the initial row is skipped when resuming into an extended file
NeverWritesInitialRow == FALSE

WritesInitialRow == ~(mSolution # 0 /\ ExtendFile)

\* line 428: the InitialiseWriter catch block destroys the initial condition
WriterCatchDestroysInitialCondition == mSolution # InitialCondition

AlwaysBuildsDefaultContainer == TRUE

\* line 396: a default container is built when none is set
BuildsDefaultContainer == mpBoundaryConditionsContainer = "null"

\* lines 396-406: the container the solver is created with
ContainerForSolve ==
  IF BuildsDefaultContainer THEN "default" ELSE mpBoundaryConditionsContainer

\* line 408, 817: an assert that fails in a build with asserts
SolveAssertFails(cfg) ==
  /\ pc = "idle"
  /\ Configured(cfg)
  /\ PreSolveChecksPass(cfg)
  /\ ~ndebug
  /\ mpSolver # "null" \/ (mPrintOutput /\ mpWriter # "null")
  /\ pc' = "aborted"
  /\ mpBoundaryConditionsContainer' = ContainerForSolve
  /\ mpDefaultBoundaryConditionsContainer' =
       mpDefaultBoundaryConditionsContainer + (IF BuildsDefaultContainer THEN 1 ELSE 0)
  /\ lastOutcome' = "AssertFailed"
  /\ calls' = <<"PreSolveChecks", "assert">>
  /\ fileAtOpen' = <<>> /\ openMode' = "none" /\ initialRow' = <<>>
  /\ committedTimes' = <<>>
  /\ solveLog' = <<>>
  /\ UNCHANGED <<ndebug, tsVars, parVars, sideVars, mPrintOutput, meshVars, mpCardiacTissue,
                 mpSolver, mSolution, mCurrentTime, mpWriter, localVars,
                 vecDestroys, fileVars, leakVars>>

\* what every Solve() that gets past the asserts has in common (lines 379-414)
SolveEnters(cfg) ==
  /\ pc = "idle"
  /\ Configured(cfg)
  /\ PreSolveChecksPass(cfg)
  /\ VecsFit(cfg)
  /\ mpSolver = "null" \/ ndebug
  /\ mPrintOutput => (mpWriter = "null" \/ ndebug)
  /\ mpBoundaryConditionsContainer' = ContainerForSolve
  /\ mpDefaultBoundaryConditionsContainer' =
       mpDefaultBoundaryConditionsContainer + (IF BuildsDefaultContainer THEN 1 ELSE 0)
  /\ committedTimes' = <<>>
  /\ UNCHANGED <<ndebug, tsVars, parVars, sideVars, mPrintOutput, meshVars, mpCardiacTissue,
                 mSolution, mCurrentTime>>

\* lines 229-264: PreSolveChecks throws, Solve() has done nothing else
SolveRejected(cfg) ==
  /\ pc = "idle"
  /\ Configured(cfg)
  /\ ~PreSolveChecksPass(cfg)
  /\ lastOutcome' = "PreSolveRejected"
  /\ calls' = <<"PreSolveChecks", "throw">>
  /\ fileAtOpen' = <<>> /\ openMode' = "none" /\ initialRow' = <<>>
  /\ committedTimes' = <<>>
  /\ solveLog' = <<>>
  /\ UNCHANGED <<ndebug, tsVars, parVars, sideVars, pc, mPrintOutput, meshVars, mpCardiacTissue,
                 bccVars, mpSolver, mSolution, mCurrentTime,
                 mpWriter, localVars, vecDestroys, fileVars,
                 leakVars>>

StartNotificationsWithoutSolution == <<<<"InitialiseAtStart", 0, 0>>>>

\* lines 460-465: every output modifier is initialised and given the
\* initial condition at the start time
StartNotifications ==
  <<<<"InitialiseAtStart", 0, 0>>,
    <<"ProcessSolutionAtTimeStep", mCurrentTime, InitialCondition>>>>

\* lines 460-476: what Solve() calls between the writer and the loop
StartCalls ==
  <<"InitialiseAtStart", "ProcessSolutionAtTimeStep", "progress_reporter.Update">>

\* lines 457-480: no output, straight to the loop
SolveStartNoOutput(cfg) ==
  /\ SolveEnters(cfg)
  /\ ~mPrintOutput
  /\ pc' = "loop"
  /\ mpSolver' = "live"
  /\ solverLeaked' = (solverLeaked \/ mpSolver = "live")
  /\ initial_condition' = InitialCondition
  /\ vecDestroys' = VecsWithInitialCondition
  /\ stepperTime' = mCurrentTime
  /\ lastOutcome' = "Solving"
  /\ calls' = <<"PreSolveChecks", "CreateSolver">> \o StartCalls
  /\ fileAtOpen' = <<>> /\ openMode' = "none" /\ initialRow' = <<>>
  /\ solveLog' = StartNotifications
  /\ UNCHANGED <<mpWriter, fileVars, writerLeaked>>

\* lines 418-441 with InitialiseWriter() throwing: the resume conflict
\* (line 840, before the writer exists), the writer's constructor (line 850) or
\* a step after it (lines 872-883).  The catch block deletes the writer and the
\* solver, leaves mpSolver as it is and rethrows.
WriterFailures == {"conflict", "constructor", "columns"}

SolveWriterInitThrows(cfg, kind) ==
  /\ SolveEnters(cfg)
  /\ mPrintOutput
  /\ pc' = "idle"
  /\ mpSolver' = "dangling"
  /\ solverLeaked' = (solverLeaked \/ mpSolver = "live")
  /\ mpWriter' = "null"
  /\ writerLeaked' = (writerLeaked \/ (kind = "columns" /\ mpWriter = "open"))
  /\ vecDestroys' = IF WriterCatchDestroysInitialCondition
                       THEN Destroyed(VecsWithInitialCondition, InitialCondition)
                       ELSE VecsWithInitialCondition
  /\ initial_condition' = 0
  /\ stepperTime' = 0
  \* a writer constructed in define mode has cleared the directory
  /\ IF kind = "columns" /\ ~ExtendFile
       THEN fileExists' = FALSE /\ fileTimes' = <<>>
       ELSE UNCHANGED fileVars
  /\ openMode' = IF kind = "columns"
                    THEN (IF ExtendFile THEN "extend" ELSE "define") ELSE "none"
  /\ fileAtOpen' = <<>> /\ initialRow' = <<>>
  /\ solveLog' = <<>>
  /\ lastOutcome' = IF kind = "conflict" THEN "ResumeConflict" ELSE "WriterInitFailed"
  /\ calls' = <<"PreSolveChecks", "CreateSolver", "InitialiseWriter",
                "delete mpWriter", "delete mpSolver", "throw">>

SolveWriterInitFails(cfg, kind) ==
  /\ (kind = "conflict") = ResumeConflict
  /\ SolveWriterInitThrows(cfg, kind)

\* lines 418-480: the writer is opened (define or extend mode), the initial
\* row is written unless resuming into an extended file
SolveStartOutput(cfg) ==
  /\ SolveEnters(cfg)
  /\ mPrintOutput
  /\ ~ResumeConflict
  /\ pc' = "loop"
  /\ mpSolver' = "live"
  /\ solverLeaked' = (solverLeaked \/ mpSolver = "live")
  /\ mpWriter' = "open"
  /\ writerLeaked' = (writerLeaked \/ mpWriter = "open")
  /\ initial_condition' = InitialCondition
  /\ vecDestroys' = VecsWithInitialCondition
  /\ stepperTime' = mCurrentTime
  /\ openMode' = IF ExtendFile THEN "extend" ELSE "define"
  /\ fileAtOpen' = RowsKeptAtOpen
  /\ initialRow' = IF WritesInitialRow THEN <<mCurrentTime>> ELSE <<>>
  /\ fileExists' = TRUE
  /\ fileTimes' = fileAtOpen' \o initialRow'
  /\ lastOutcome' = "Solving"
  /\ calls' = <<"PreSolveChecks", "CreateSolver", "InitialiseWriter">>
                \o (IF WritesInitialRow THEN <<"WriteOneStep">> ELSE <<>>)
                \o StartCalls
  /\ solveLog' = (IF WritesInitialRow
                    THEN <<<<"WriteOneStep", mCurrentTime, InitialCondition>>>>
                    ELSE <<>>) \o StartNotifications

\* ------------------------------------------------- CloseFilesAndPostProcess
\* lines 579-672: nothing when output is off; else the writer is deleted and
\* its handle cleared, then post-processing and the conversions run
WriterLeftOpenAfterClose == mpWriter

WriterAfterClose == IF mPrintOutput THEN "null" ELSE mpWriter

CloseFilesAlwaysPostProcessing ==
  <<"CloseFilesAndPostProcess", "delete mpWriter", "post-processing">>

CloseFilesAndPostProcessCalls ==
  <<"CloseFilesAndPostProcess">>
    \o (IF mPrintOutput THEN <<"delete mpWriter", "post-processing">> ELSE <<>>)

\* ---------------------------------------------------------- Solve(): loop
LoopDestroysIfDifferent(returned) == returned # initial_condition

\* line 529: the old initial condition is destroyed after a successful solve
LoopDestroysInitialCondition(returned) == TRUE

LoopNeverWritesRow == FALSE

\* line 550: a row is appended for the committed step
LoopWritesRow == mPrintOutput

IterationCallsWritingFirst ==
  <<"SetTimes", "SetInitialCondition", "AtBeginningOfTimestep",
    "solver.Solve", "Destroy(initial_condition)", "AdvanceOneTimeStep",
    "mCurrentTime = stepper.GetTime">>
    \o (IF LoopWritesRow THEN <<"WriteOneStep">> ELSE <<>>)
    \o <<"ProcessSolutionAtTimeStep", "progress_reporter.Update",
         "OnEndOfTimestep">>

\* lines 484-563: what a successful iteration calls, in program order
IterationCalls ==
  <<"SetTimes", "SetInitialCondition", "AtBeginningOfTimestep",
    "solver.Solve", "Destroy(initial_condition)", "AdvanceOneTimeStep",
    "mCurrentTime = stepper.GetTime", "ProcessSolutionAtTimeStep">>
    \o (IF LoopWritesRow THEN <<"WriteOneStep">> ELSE <<>>)
    \o <<"progress_reporter.Update", "OnEndOfTimestep">>

IterationLogWritingOldVector(returned) ==
  <<<<"AtBeginningOfTimestep", stepperTime, 0>>,
    <<"ProcessSolutionAtTimeStep", GetNextTime(stepperTime), returned>>>>
    \o (IF LoopWritesRow
          THEN <<<<"WriteOneStep", GetNextTime(stepperTime), initial_condition>>>>
          ELSE <<>>)
    \o <<<<"OnEndOfTimestep", GetNextTime(stepperTime), 0>>>>

\* lines 487-563: the arguments of the hooks, of the modifier notification
\* and of the row of a successful iteration
IterationLog(returned) ==
  <<<<"AtBeginningOfTimestep", stepperTime, 0>>,
    <<"ProcessSolutionAtTimeStep", GetNextTime(stepperTime), returned>>>>
    \o (IF LoopWritesRow
          THEN <<<<"WriteOneStep", GetNextTime(stepperTime), returned>>>>
          ELSE <<>>)
    \o <<<<"OnEndOfTimestep", GetNextTime(stepperTime), 0>>>>

\* One successful iteration (lines 484-563) in which the solver returned the
\* allocation `returned`
SolveIterationReturning(returned, counts) ==
  /\ pc = "loop"
  /\ ~IsTimeAtEnd(stepperTime)
  /\ mSolution' = returned
  /\ vecDestroys' = IF LoopDestroysInitialCondition(returned)
                       THEN Destroyed(counts, initial_condition) ELSE counts
  /\ initial_condition' = returned
  /\ stepperTime' = GetNextTime(stepperTime)
  /\ mCurrentTime' = stepperTime'
  /\ committedTimes' = Append(committedTimes, stepperTime')
  /\ fileTimes' = IF LoopWritesRow THEN Append(fileTimes, stepperTime') ELSE fileTimes
  /\ calls' = IterationCalls
  /\ solveLog' = solveLog \o IterationLog(returned)
  /\ UNCHANGED <<ndebug, tsVars, parVars, sideVars, pc, cfgVars, mPrintOutput, meshVars, mpCardiacTissue,
                 bccVars, mpSolver, mpWriter, fileExists,
                 lastOutcome, fileAtOpen, openMode, initialRow,
                 leakVars>>

\* the solver returns a new vector (its contract)
SolveIteration ==
  SolveIterationReturning(NewVec(vecDestroys), Allocated(vecDestroys))

FailureAlwaysDestroysInitialCondition == TRUE

\* line 517: the catch block destroys the initial condition
FailureDestroysInitialCondition == initial_condition # mSolution

FailureCleanupClosesFirst ==
  CloseFilesAndPostProcessCalls
    \o <<"delete mpSolver", "mpSolver = nullptr">>
    \o (IF FailureDestroysInitialCondition
          THEN <<"Destroy(initial_condition)">> ELSE <<>>)
    \o <<"HeartEventHandler::Reset", "throw">>

\* lines 505-524: what the catch block does, in program order
FailureCleanupCalls ==
  <<"delete mpSolver", "mpSolver = nullptr">>
    \o (IF FailureDestroysInitialCondition
          THEN <<"Destroy(initial_condition)">> ELSE <<>>)
    \o <<"HeartEventHandler::Reset">>
    \o CloseFilesAndPostProcessCalls
    \o <<"throw">>

\* lines 503-525: the solver throws; the catch block cleans up and rethrows
SolveIterationFails ==
  /\ pc = "loop"
  /\ ~IsTimeAtEnd(stepperTime)
  /\ pc' = "idle"
  /\ mpSolver' = "null"
  /\ vecDestroys' = IF FailureDestroysInitialCondition
                       THEN Destroyed(vecDestroys, initial_condition)
                       ELSE vecDestroys
  /\ mpWriter' = WriterAfterClose
  /\ initial_condition' = 0
  /\ stepperTime' = 0
  /\ lastOutcome' = "SolverFailure"
  /\ calls' = <<"SetTimes", "SetInitialCondition", "AtBeginningOfTimestep",
                "solver.Solve">> \o FailureCleanupCalls
  /\ solveLog' = Append(solveLog, <<"AtBeginningOfTimestep", stepperTime, 0>>)
  /\ UNCHANGED <<ndebug, tsVars, parVars, sideVars, cfgVars, mPrintOutput, meshVars, mpCardiacTissue,
                 bccVars, mSolution, mCurrentTime,
                 fileVars, fileAtOpen, openMode, initialRow, committedTimes,
                 leakVars>>

\* lines 566-576: what Solve() calls after the loop, in program order
CompletionCalls ==
  <<"delete mpSolver", "mpSolver = nullptr", "progress_reporter.PrintFinalising",
    "FinaliseAtEnd">>
    \o CloseFilesAndPostProcessCalls \o <<"return">>

\* lines 566-576: the loop is over, Solve() returns
SolveCompletes ==
  /\ pc = "loop"
  /\ IsTimeAtEnd(stepperTime)
  /\ pc' = "idle"
  /\ mpSolver' = "null"
  /\ mpWriter' = WriterAfterClose
  /\ initial_condition' = 0
  /\ stepperTime' = 0
  /\ lastOutcome' = "Returned"
  /\ calls' = CompletionCalls
  /\ solveLog' = Append(solveLog, <<"FinaliseAtEnd", 0, 0>>)
  /\ UNCHANGED <<ndebug, tsVars, parVars, sideVars, cfgVars, mPrintOutput, meshVars, mpCardiacTissue,
                 bccVars, mSolution, mCurrentTime,
                 vecDestroys, fileVars, fileAtOpen, openMode, initialRow,
                 committedTimes, leakVars>>

\* ---------------------------------------------------------- specification
Next ==
  \/ PrintOutput
  \/ Initialise
  \/ Destructor
  \/ \E cfg \in Configs : SolveRejected(cfg)
  \/ \E cfg \in Configs : SolveAssertFails(cfg)
  \/ \E cfg \in Configs : SolveStartNoOutput(cfg)
  \/ \E cfg \in Configs, kind \in WriterFailures : SolveWriterInitFails(cfg, kind)
  \/ \E cfg \in Configs : SolveStartOutput(cfg)
  \/ SolveIteration
  \/ SolveIterationFails
  \/ SolveCompletes

Spec == Init /\ [][Next]_vars

\* A Solve() that has been called keeps running: the loop takes its next
\* iteration, or leaves through the failure path or the completion
SolveContinues == SolveIteration \/ SolveIterationFails \/ SolveCompletes

SpecRunning == Spec /\ WF_vars(SolveContinues)

\* ------------------------------------------- a solver that returns its input
\* CreateSolver() is a virtual of the subclass: a solver that hands back the
\* very allocation it was given as initial condition
SolveIterationAliased ==
  SolveIterationReturning(initial_condition, vecDestroys)

\* the solve loop with output enabled, over such a solver
NextAliasingSolver ==
  \/ Initialise
  \/ Destructor
  \/ \E cfg \in Configs : SolveStartOutput(cfg)
  \/ SolveIteration
  \/ SolveIterationAliased
  \/ SolveIterationFails
  \/ SolveCompletes

SpecAliasingSolver == Init /\ [][NextAliasingSolver]_vars

\* ------------------------------------------------ checkpoint write failures
\* line 450: WriteOneStep() throws on the initial row.  No handler is around
\* it: the exception leaves Solve() with the solver, the writer and the
\* initial condition as they are.
SolveInitialRowWriteFails(cfg) ==
  /\ SolveEnters(cfg)
  /\ mPrintOutput
  /\ ~ResumeConflict
  /\ WritesInitialRow
  /\ pc' = "idle"
  /\ mpSolver' = "live"
  /\ solverLeaked' = (solverLeaked \/ mpSolver = "live")
  /\ mpWriter' = "open"
  /\ writerLeaked' = (writerLeaked \/ mpWriter = "open")
  /\ initial_condition' = 0
  /\ stepperTime' = 0
  /\ vecDestroys' = VecsWithInitialCondition
  /\ openMode' = IF ExtendFile THEN "extend" ELSE "define"
  /\ fileAtOpen' = IF ExtendFile THEN fileTimes ELSE <<>>
  /\ initialRow' = <<>>
  /\ solveLog' = <<>>
  /\ fileExists' = TRUE
  /\ fileTimes' = fileAtOpen'
  /\ lastOutcome' = "WriteFailure"
  /\ calls' = <<"PreSolveChecks", "CreateSolver", "InitialiseWriter",
                "WriteOneStep", "throw">>

\* line 553: WriteOneStep() throws on the row of a step that has just been
\* committed; again no handler is around it
SolveIterationWriteFails ==
  /\ pc = "loop"
  /\ ~IsTimeAtEnd(stepperTime)
  /\ mPrintOutput
  /\ pc' = "idle"
  /\ mSolution' = NewVec(vecDestroys)
  /\ vecDestroys' = Destroyed(Allocated(vecDestroys), initial_condition)
  /\ mCurrentTime' = GetNextTime(stepperTime)
  /\ committedTimes' = Append(committedTimes, mCurrentTime')
  /\ initial_condition' = 0
  /\ stepperTime' = 0
  /\ lastOutcome' = "WriteFailure"
  /\ calls' = <<"SetTimes", "SetInitialCondition", "AtBeginningOfTimestep",
                "solver.Solve", "Destroy(initial_condition)", "AdvanceOneTimeStep",
                "mCurrentTime = stepper.GetTime", "ProcessSolutionAtTimeStep",
                "WriteOneStep", "throw">>
  /\ solveLog' = solveLog \o
       <<<<"AtBeginningOfTimestep", stepperTime, 0>>,
         <<"ProcessSolutionAtTimeStep", GetNextTime(stepperTime), mSolution'>>>>
  /\ UNCHANGED <<ndebug, tsVars, parVars, sideVars, cfgVars, mPrintOutput, meshVars, mpCardiacTissue,
                 bccVars, mpSolver, mpWriter, fileVars,
                 fileAtOpen, openMode, initialRow, leakVars>>

\* line 839 on a file without rows: times.back() of an empty vector is
\* undefined; SolveStartOutput is the outcome in which the value read does not
\* exceed the current time, this is the outcome in which it does
UndefinedLastTime == ExtendFile /\ fileTimes = <<>>

SolveReadsUndefinedLastTime(cfg) ==
  /\ UndefinedLastTime
  /\ SolveWriterInitThrows(cfg, "conflict")

NextWriteFailure ==
  \/ Next
  \/ \E cfg \in Configs : SolveInitialRowWriteFails(cfg)
  \/ SolveIterationWriteFails
  \/ \E cfg \in Configs : SolveReadsUndefinedLastTime(cfg)

SpecWriteFailure == Init /\ [][NextWriteFailure]_vars

\* ------------------------------------------------- a group of processes
\* Solve() with output enabled as each process of an MPI group runs it.  A
\* collective call (barrier, solver, checkpoint write, ReplicateException)
\* completes on a process once every process has entered it.
Procs == 1..NumProcs

orchestratorVars ==
  <<pc, mPrintOutput, meshVars, mpCardiacTissue, bccVars,
    mpSolver, mSolution, mCurrentTime, mpWriter, localVars, vecDestroys,
    fileVars, lastOutcome, calls, histVars, leakVars, sideVars>>

\* the process has entered another collective call
Entered(log, p, call) == [log EXCEPT ![p] = Append(@, call)]

\* every process has entered the collective call process p is in
CollectiveCompletes(p) ==
  \A q \in Procs : Len(procCalls[q]) >= Len(procCalls[p])

\* How the group starts: a fresh run, or a run resumed at time 1 with no
\* checkpoint file, one written up to time 1, or one written up to time 2
ParScenarios ==
  {[resumed |-> FALSE, time |-> 0, times |-> <<>>],
   [resumed |-> TRUE, time |-> 1, times |-> <<>>],
   [resumed |-> TRUE, time |-> 1, times |-> <<0, 1>>],
   [resumed |-> TRUE, time |-> 1, times |-> <<0, 1, 2>>]}

\* lines 379-414: every process calls Solve() with the same configuration
ParSolveStarts(cfg, sc) ==
  /\ \A p \in Procs : procPc[p] = "idle"
  /\ cfg.dir # ""
  /\ cfg.end > sc.time
  /\ cfg.end % cfg.steps[1] = 0
  /\ Configured(cfg)
  /\ runResumed' = sc.resumed
  /\ sharedExists' = (sc.times # <<>>)
  /\ sharedTimes' = sc.times
  /\ procPc' = [p \in Procs |-> "enter"]
  /\ procTime' = [p \in Procs |-> sc.time]
  /\ UNCHANGED <<ndebug, tsVars, orchestratorVars, procExtend, procCalls, procOutcomes>>

\* lines 814-828: with a retained solution the process goes to the barrier
\* in front of the existence check
ParReachesFirstBarrier(p) ==
  /\ procPc[p] = "enter"
  /\ runResumed
  /\ procPc' = [procPc EXCEPT ![p] = "barrier1"]
  /\ procCalls' = Entered(procCalls, p, "Barrier")
  /\ UNCHANGED <<ndebug, tsVars, cfgVars, orchestratorVars, runResumed, sharedExists,
                 sharedTimes, procTime, procExtend, procOutcomes>>

\* line 828: PetscTools::Barrier in front of the existence check
FirstBarrierPassed(p) == CollectiveCompletes(p)

\* lines 829-847: what the process finds out about the file.  An existing
\* file without rows makes times.back() undefined: either outcome.
ExtendDecisions(p) ==
  IF ~sharedExists THEN {"fresh"}
  ELSE IF sharedTimes = <<>> THEN {"extend", "conflict"}
  ELSE IF Last(sharedTimes) > procTime[p] THEN {"conflict"} ELSE {"extend"}

\* lines 828-848: past the barrier the process checks the file; it throws
\* on a conflict and else goes to the second barrier
ParChecksFile(p, decision) ==
  /\ procPc[p] = "barrier1"
  /\ FirstBarrierPassed(p)
  /\ decision \in ExtendDecisions(p)
  /\ procExtend' = [procExtend EXCEPT ![p] = decision]
  /\ IF decision = "conflict"
       THEN /\ procPc' = [procPc EXCEPT ![p] = "threw"]
            /\ UNCHANGED procCalls
       ELSE /\ procPc' = [procPc EXCEPT ![p] = "barrier2"]
            /\ procCalls' = Entered(procCalls, p, "Barrier")
  /\ UNCHANGED <<ndebug, tsVars, cfgVars, orchestratorVars, runResumed, sharedExists,
                 sharedTimes, procTime, procOutcomes>>

NoSecondBarrier(p) == TRUE

\* line 848: PetscTools::Barrier between the check and the writer
SecondBarrierPassed(p) == CollectiveCompletes(p)

\* lines 850-856: new Hdf5DataWriter; without extend_file it clears the
\* directory and creates the file
ParOpensWriter(p) ==
  /\ \/ procPc[p] = "barrier2" /\ SecondBarrierPassed(p)
     \/ procPc[p] = "enter" /\ ~runResumed
  /\ procPc' = [procPc EXCEPT ![p] = "opened"]
  /\ procExtend' = [procExtend EXCEPT ![p] = IF runResumed THEN @ ELSE "fresh"]
  /\ IF procExtend'[p] = "fresh"
       THEN sharedExists' = TRUE /\ sharedTimes' = <<>>
       ELSE UNCHANGED <<sharedExists, sharedTimes>>
  /\ UNCHANGED <<ndebug, tsVars, cfgVars, orchestratorVars, runResumed, procTime,
                 procCalls, procOutcomes>>

\* lines 449-452: the initial row, unless resuming into an extended file
ParEntersInitialRow(p) ==
  /\ procPc[p] = "opened"
  /\ IF ~(runResumed /\ procExtend[p] = "extend")
       THEN /\ procPc' = [procPc EXCEPT ![p] = "writing"]
            /\ procCalls' = Entered(procCalls, p, "WriteOneStep")
       ELSE /\ procPc' = [procPc EXCEPT ![p] = "loop"]
            /\ UNCHANGED procCalls
  /\ UNCHANGED <<ndebug, tsVars, cfgVars, orchestratorVars, runResumed, sharedExists,
                 sharedTimes, procTime, procExtend, procOutcomes>>

\* lines 450-451 and 553-556: the collective write completes; the row is in
\* the file once
ParRowWritten(p) ==
  /\ procPc[p] = "writing"
  /\ CollectiveCompletes(p)
  /\ procPc' = [procPc EXCEPT ![p] = "loop"]
  /\ sharedTimes' = IF sharedTimes = <<>> \/ Last(sharedTimes) < procTime[p]
                       THEN Append(sharedTimes, procTime[p]) ELSE sharedTimes
  /\ UNCHANGED <<ndebug, tsVars, cfgVars, orchestratorVars, runResumed, sharedExists,
                 procTime, procExtend, procCalls, procOutcomes>>

\* lines 482-491: the process enters the collective solve of the next interval
ParEntersSolve(p) ==
  /\ procPc[p] = "loop"
  /\ ~IsTimeAtEnd(procTime[p])
  /\ procPc' = [procPc EXCEPT ![p] = "solving"]
  /\ procCalls' = Entered(procCalls, p, "Solve")
  /\ UNCHANGED <<ndebug, tsVars, cfgVars, orchestratorVars, runResumed, sharedExists,
                 sharedTimes, procTime, procExtend, procOutcomes>>

\* lines 527-553: the interval is committed on this process, which goes on
\* to write the row
ParCommitted(p) ==
  /\ procTime' = [procTime EXCEPT ![p] = GetNextTime(@)]
  /\ procPc' = [procPc EXCEPT ![p] = "writing"]

\* lines 494-500: ReplicateException is compiled in with the asserts only
Replicates == ~ndebug

\* lines 489-502: mpSolver->Solve() returns or throws on this process.
\* With ReplicateException compiled in, the process enters it with its flag;
\* without, it commits or takes the failure path on its own outcome.
ParSolveEnds(p, outcome) ==
  /\ procPc[p] = "solving"
  /\ outcome = "ok" => CollectiveCompletes(p)
  /\ procOutcomes' = [procOutcomes EXCEPT ![p] = Append(@, outcome)]
  /\ IF Replicates
       THEN /\ procPc' = [procPc EXCEPT ![p] = "replicating"]
            /\ procCalls' = Entered(procCalls, p, "ReplicateException")
            /\ UNCHANGED procTime
       ELSE IF outcome = "ok"
         THEN /\ ParCommitted(p)
              /\ procCalls' = Entered(procCalls, p, "WriteOneStep")
         ELSE /\ procPc' = [procPc EXCEPT ![p] = "failed"]
              /\ UNCHANGED <<procTime, procCalls>>
  /\ UNCHANGED <<ndebug, tsVars, cfgVars, orchestratorVars, runResumed, sharedExists,
                 sharedTimes, procExtend>>

\* the solver threw on some process in the iteration process p is in
AnyoneFailed(p) ==
  \E q \in Procs :
    /\ Len(procOutcomes[q]) >= Len(procOutcomes[p])
    /\ procOutcomes[q][Len(procOutcomes[p])] = "failed"

\* lines 494-525: ReplicateException completes: the process takes the
\* failure path if the solver threw on any process, and else commits
ParReplicated(p) ==
  /\ procPc[p] = "replicating"
  /\ CollectiveCompletes(p)
  /\ IF AnyoneFailed(p)
       THEN /\ procPc' = [procPc EXCEPT ![p] = "failed"]
            /\ UNCHANGED <<procTime, procCalls>>
       ELSE /\ ParCommitted(p)
            /\ procCalls' = Entered(procCalls, p, "WriteOneStep")
  /\ UNCHANGED <<ndebug, tsVars, cfgVars, orchestratorVars, runResumed, sharedExists,
                 sharedTimes, procExtend, procOutcomes>>

\* lines 566-576: the loop is over on this process
ParCompletes(p) ==
  /\ procPc[p] = "loop"
  /\ IsTimeAtEnd(procTime[p])
  /\ procPc' = [procPc EXCEPT ![p] = "done"]
  /\ UNCHANGED <<ndebug, tsVars, cfgVars, orchestratorVars, runResumed, sharedExists,
                 sharedTimes, procTime, procExtend, procCalls, procOutcomes>>

\* lines 491 and 532-537: the time of the field mSolution holds on process p.
\* The assignment of line 491 is made as soon as the local solve returns; the
\* current time follows at line 537, after ReplicateException
ProcSolutionTime(p) ==
  IF /\ procOutcomes[p] # <<>> /\ Last(procOutcomes[p]) = "ok"
     /\ procPc[p] \in {"replicating", "failed"}
    THEN GetNextTime(procTime[p])
    ELSE procTime[p]

NextParallel ==
  \/ \E cfg \in Configs, sc \in ParScenarios : ParSolveStarts(cfg, sc)
  \/ \E p \in Procs : ParReachesFirstBarrier(p)
  \/ \E p \in Procs, decision \in {"fresh", "extend", "conflict"} :
       ParChecksFile(p, decision)
  \/ \E p \in Procs : ParOpensWriter(p)
  \/ \E p \in Procs : ParEntersInitialRow(p)
  \/ \E p \in Procs : ParRowWritten(p)
  \/ \E p \in Procs : ParEntersSolve(p)
  \/ \E p \in Procs, outcome \in {"ok", "failed"} : ParSolveEnds(p, outcome)
  \/ \E p \in Procs : ParReplicated(p)
  \/ \E p \in Procs : ParCompletes(p)

SpecParallel == Init /\ [][NextParallel]_vars

\* ------------------------------------------------------------ TimeStepper
\* The stepper Solve() constructs at lines 384-388 from the current time, the
\* simulation duration, the printing time step and the additional stopping
\* times of SetUpAdditionalStoppingTimes().
SetOf(s) == {s[i] : i \in 1..Len(s)}

MinOf(S) == CHOOSE x \in S : \A y \in S : x <= y

\* the additional stopping times still ahead of time t
StopsAhead(stops, t) == {x \in SetOf(stops) : x > t}

RegularNextTime(args, t) == Min(t + args.dt, args.end)

\* GetNextTime(): the next regular boundary or the next additional stopping
\* time, whichever comes first, and never beyond the end time
NextTime(args, t) ==
  LET regular == Min(t + args.dt, args.end)
      ahead   == StopsAhead(args.stops, t)
  IN IF ahead = {} THEN regular ELSE Min(regular, MinOf(ahead))

\* sequences of at most MaxStops additional stopping times, in any order,
\* with repetitions and with times before the start or after the end
StopLists ==
  UNION {[1..n -> 0..(MaxEndTime + 1)] : n \in 0..MaxStops}

TimeStepperArgs ==
  {a \in [start : 0..1, end : 1..MaxEndTime, dt : 1..2, stops : StopLists] :
     a.start < a.end}

\* a stepper has been constructed
StepperExists == tsArgs.end > 0

\* TimeStepper::TimeStepper
TimeStepperConstructed(args) ==
  /\ ~StepperExists
  /\ tsArgs' = args
  /\ tsTime' = args.start
  /\ tsVisited' = <<>>
  /\ UNCHANGED <<ndebug, cfgVars, orchestratorVars, parVars>>

\* TimeStepper::AdvanceOneTimeStep, called while !IsTimeAtEnd()
AdvanceOneTimeStep ==
  /\ StepperExists
  /\ tsTime < tsArgs.end
  /\ tsTime' = NextTime(tsArgs, tsTime)
  /\ tsVisited' = Append(tsVisited, tsTime')
  /\ UNCHANGED <<ndebug, cfgVars, orchestratorVars, parVars, tsArgs>>

NextTimeStepper ==
  \/ \E args \in TimeStepperArgs : TimeStepperConstructed(args)
  \/ AdvanceOneTimeStep

SpecTimeStepper == Init /\ [][NextTimeStepper]_vars

\* ------------------------------------------- boundary-conditions container
\* lines 220-227: the caller sets its own container, or an empty pointer.
\* A problem is given an empty pointer only while fewer than MaxDefaults
\* default containers have been built.
SetBoundaryConditionsContainer(pBcc) ==
  /\ pc = "idle"
  /\ pBcc = "null" => mpDefaultBoundaryConditionsContainer < MaxDefaults
  /\ mpBoundaryConditionsContainer' = pBcc
  /\ ObservationsCleared
  /\ UNCHANGED <<ndebug, tsVars, parVars, sideVars, pc, mPrintOutput, meshVars,
                 mpCardiacTissue, mpDefaultBoundaryConditionsContainer, mpSolver,
                 mSolution, mCurrentTime, mpWriter, localVars, vecDestroys,
                 fileVars, leakVars>>

\* the setter with Initialise() and Solve() calls that write output
NextBoundaryConditions ==
  \/ \E pBcc \in {"null", "caller"} : SetBoundaryConditionsContainer(pBcc)
  \/ Initialise
  \/ \E cfg \in Configs : SolveRejected(cfg)
  \/ \E cfg \in Configs : SolveStartOutput(cfg)
  \/ SolveIteration
  \/ SolveIterationFails
  \/ SolveCompletes

SpecBoundaryConditions == Init /\ [][NextBoundaryConditions]_vars

\* ------------------------------------------- ownership of tissue and mesh
\* Initialise(), SetMesh() and the destructor with every object they create
\* and delete counted, and with the two ways Initialise() can throw: from the
\* mesh construction (lines 131-178) and from CreateCardiacTissue() (line 193).

\* `delete p` where p is null or points to the last object of objs
Deleted(objs, ptr) ==
  IF ptr = "null" THEN objs ELSE [objs EXCEPT ![Len(objs)] = Min(@ + 1, 2)]

\* every variable these calls never touch
ownershipFrame ==
  <<ndebug, cfgVars, mPrintOutput, bccVars, mpSolver,
    mpWriter, localVars, fileVars, lastOutcome, calls, histVars, leakVars,
    tsVars, parVars, dataVars, cryptVars, componentVars>>

\* lines 291-303: the asserts hold, or are compiled out
SetMesh ==
  /\ pc = "idle"
  /\ mpMesh = "null" \/ ndebug
  /\ mAllocatedMemoryForMesh' = FALSE
  /\ mpMesh' = "caller"
  /\ meshHalfBuilt' = FALSE
  /\ UNCHANGED <<ownershipFrame, pc, mpCardiacTissue, mSolution, mCurrentTime,
                 vecDestroys, tissues, meshes, callerMeshDeleted>>

\* line 299: assert(mpMesh == nullptr) fails
SetMeshAssertFails ==
  /\ pc = "idle"
  /\ mpMesh # "null" /\ ~ndebug
  /\ pc' = "aborted"
  /\ UNCHANGED <<ownershipFrame, meshVars, mpCardiacTissue, mSolution,
                 mCurrentTime, vecDestroys, ownVars>>

InitialiseOutcomes == {"returns", "no mesh", "no tissue"}

\* lines 116-210.  "no mesh": the construction of the mesh created at line 216
\* throws and line 176 rethrows, line 173 not reached.  "no tissue":
\* CreateCardiacTissue() throws at line 193, after the delete of line 192.
InitialiseOwning(outcome) ==
  /\ pc = "idle"
  /\ Len(tissues) < MaxTissues
  /\ outcome = "no mesh" => mpMesh = "null"
  /\ mpMesh' = MeshAfterAcquire
  /\ meshes' = IF mpMesh = "null" THEN Append(meshes, 0) ELSE meshes
  /\ meshHalfBuilt' = IF mpMesh = "null" THEN outcome = "no mesh" ELSE meshHalfBuilt
  /\ mAllocatedMemoryForMesh' =
       IF outcome = "no mesh" THEN mAllocatedMemoryForMesh ELSE AllocatedAfterAcquire
  /\ tissues' =
       CASE outcome = "no mesh" -> tissues
         [] outcome = "no tissue" -> Deleted(tissues, mpCardiacTissue)
         [] outcome = "returns" -> Append(Deleted(tissues, mpCardiacTissue), 0)
  /\ mpCardiacTissue' =
       CASE outcome = "no mesh" -> mpCardiacTissue
         [] outcome = "no tissue" ->
              IF mpCardiacTissue = "null" THEN "null" ELSE "dangling"
         [] outcome = "returns" -> "live"
  /\ IF outcome = "returns"
       THEN /\ vecDestroys' = IF InitialiseDestroysSolution
                                 THEN Destroyed(vecDestroys, mSolution)
                                 ELSE vecDestroys
            /\ mSolution' = 0
            /\ mCurrentTime' = 0
       ELSE UNCHANGED <<vecDestroys, mSolution, mCurrentTime>>
  /\ UNCHANGED <<ownershipFrame, pc, callerMeshDeleted>>

\* lines 106-114
DestructorOwning ==
  /\ pc = "idle"
  /\ pc' = "destroyed"
  /\ tissues' = Deleted(tissues, mpCardiacTissue)
  /\ mpCardiacTissue' = "null"
  /\ vecDestroys' = IF DestructorDestroysSolution
                       THEN Destroyed(vecDestroys, mSolution) ELSE vecDestroys
  /\ meshes' = IF mAllocatedMemoryForMesh /\ mpMesh = "own"
                  THEN Deleted(meshes, mpMesh) ELSE meshes
  /\ callerMeshDeleted' =
       (callerMeshDeleted \/ (mAllocatedMemoryForMesh /\ mpMesh = "caller"))
  /\ mpMesh' = IF mAllocatedMemoryForMesh THEN "null" ELSE mpMesh
  /\ UNCHANGED <<ownershipFrame, mAllocatedMemoryForMesh, mSolution,
                 mCurrentTime, meshHalfBuilt>>

NextOwnership ==
  \/ SetMesh
  \/ SetMeshAssertFails
  \/ \E outcome \in InitialiseOutcomes : InitialiseOwning(outcome)
  \/ DestructorOwning

SpecOwnership == Init /\ [][NextOwnership]_vars

\* ===================================== the data of a run and its checkpoint
\* Solve() with output, followed at the level of what the vectors, the columns
\* of the checkpoint and its rows hold.  One printing step is one tick.
Nodes == 1..NumNodes

Voltages == {-85, 20}

\* the constructor is given a cell factory, the mesh is one of NumNodes nodes
ProblemConstructed(dim, voltages, regions, permutes) ==
  /\ pc = "idle" /\ problemDim = 0
  /\ problemDim' = dim
  /\ cellVoltage' = voltages
  /\ nodeRegion' = regions
  /\ permutationApplies' = permutes
  /\ UNCHANGED <<ndebug, tsVars, parVars, ownVars, cryptVars, componentVars, cfgVars, pc, mPrintOutput,
                 meshVars, mpCardiacTissue, bccVars, mpSolver, mSolution,
                 mCurrentTime, mpWriter, localVars, vecDestroys, fileVars,
                 lastOutcome, calls, histVars, leakVars, vecData,
                 outputVariables, postProcessingRequested, originalNodeOrdering,
                 orderingRequested, orderingOutcome, fileColumns, fileDerived,
                 mVoltageColumnId, mExtraVariablesId, rowsPut, cellQueries,
                 convertedOutput>>

\* HeartConfig::SetOutputUsingOriginalNodeOrdering(), called by the caller
SetOutputUsingOriginalNodeOrdering(flag) ==
  /\ pc = "idle"
  /\ originalNodeOrdering' = flag
  /\ orderingRequested' = flag
  /\ lastOutcome' = "none" /\ calls' = <<>>
  /\ UNCHANGED <<ndebug, tsVars, parVars, ownVars, cryptVars, componentVars, cfgVars, pc, mPrintOutput,
                 meshVars, mpCardiacTissue, bccVars, mpSolver, mSolution,
                 mCurrentTime, mpWriter, localVars, vecDestroys, fileVars,
                 histVars, leakVars, problemDim, cellVoltage,
                 nodeRegion, permutationApplies, vecData, outputVariables,
                 postProcessingRequested, orderingOutcome, fileColumns,
                 fileDerived, mVoltageColumnId, mExtraVariablesId, rowsPut,
                 cellQueries, convertedOutput>>

InitialConditionZeroEverywhere(unset) ==
  [n \in Nodes |-> [i \in 1..problemDim |-> 0]]

\* lines 266-288: stripe 0 is the voltage of the node's cell, stripe 1 is
\* zeroed when PROBLEM_DIM is 2; any other entry is left as CreateVec() made
\* it (`unset`)
CreateInitialCondition(unset) ==
  [n \in Nodes |->
     [i \in 1..problemDim |->
        IF i = 1 THEN cellVoltage[n]
        ELSE IF problemDim = 2 THEN 0 ELSE unset]]

\* ---- names of output variables: strings, as sequences of tokens
Digits == {"0", "1", "2", "3"}

DigitValue == ("0" :> 0) @@ ("1" :> 1) @@ ("2" :> 2) @@ ("3" :> 3)

\* std::string::find("__IDX__"): the first position, 0 for npos
Find(name) ==
  IF \E i \in 1..Len(name) : name[i] = "__IDX__"
    THEN CHOOSE i \in 1..Len(name) :
           /\ name[i] = "__IDX__"
           /\ \A j \in 1..(i - 1) : name[j] # "__IDX__"
    ELSE 0

\* std::stoi: the number its leading digits spell
RECURSIVE Stoi(_, _)
Stoi(str, acc) ==
  IF str = <<>> \/ str[1] \notin Digits
    THEN acc
    ELSE Stoi(Tail(str), 10 * acc + DigitValue[str[1]])

CellIndexIgnored(name) == 0

\* lines 759-768: cell_idx
CellIndex(name) ==
  IF Find(name) = 0
    THEN 0
    ELSE Stoi(SubSeq(name, Find(name) + 1, Len(name)), 0)

\* lines 760-765: var_name
VarName(name) ==
  IF Find(name) = 0 THEN name ELSE SubSeq(name, 1, Find(name) - 1)

\* line 797: NEVER_REACHED, met at a node that is not bath
NeverReached(names) ==
  /\ \E i \in 1..Len(names) : CellIndex(names[i]) > 2
  /\ \E n \in Nodes : nodeRegion[n] # "bath"

\* the value 0.0 and the value GetCardiacCell<k>(n)->GetAnyVariable(var, t)
ZeroValue == <<0, <<>>, 0>>

CellValue(k, var, t) == <<k, var, t>>

\* lines 771-800: the value gathered for node n
ExtraVariableValue(name, n, t) ==
  IF nodeRegion[n] = "bath"
    THEN ZeroValue
    ELSE CellValue(CellIndex(name) + 1, VarName(name), t)

\* lines 740-808: one PutVector per entry of mExtraVariablesId
WriteExtraVariablesOneStep(t) ==
  [i \in 1..Len(mExtraVariablesId) |->
     <<mExtraVariablesId[i],
       [n \in Nodes |-> ExtraVariableValue(outputVariables[i], n, t)]>>]

\* lines 782-795: the cell models it queries
QueriesOfOneStep(t) ==
  {<<CellIndex(outputVariables[i]) + 1, n, VarName(outputVariables[i]), t>> :
     i \in 1..Len(mExtraVariablesId),
     n \in {m \in Nodes : nodeRegion[m] # "bath"}}

\* WriteOneStep(time, vec) of the problem subclass: the voltage column, then
\* the extra variables at mCurrentTime = t
WriteOneStep(vec, t) ==
  <<<<mVoltageColumnId, vec>>>> \o WriteExtraVariablesOneStep(t)

\* ---- columns
\* the id of a column: its position in the file, from 0
ColumnId(name, columns) ==
  (CHOOSE i \in 1..Len(columns) : columns[i] = name) - 1

\* lines 674-702 and 704-738 in define mode: "V", then one DefineVariable per
\* requested name
ColumnsDefined(names) == <<<<"V">>>> \o names

ExtraVariablesIdKeepingOld(names, columns) ==
  mExtraVariablesId \o [i \in 1..Len(names) |-> ColumnId(names[i], columns)]

\* lines 708-737: cleared, then one id per requested name, in request order
ExtraVariablesId(names, columns) ==
  [i \in 1..Len(names) |-> ColumnId(names[i], columns)]

\* ---- CloseFilesAndPostProcess on the data
\* the converters read the rows and columns of the file and the ordering flag
Converted(times, columns, derived) ==
  <<[times |-> times, columns |-> columns, derived |-> derived,
     original |-> originalNodeOrdering]>>

\* lines 584-672
CloseFilesAndPostProcessData ==
  /\ mpWriter' = WriterAfterClose
  /\ fileDerived' = (fileDerived \/ (mPrintOutput /\ postProcessingRequested))
  /\ convertedOutput' =
       IF mPrintOutput THEN Converted(fileTimes, fileColumns, fileDerived')
                       ELSE convertedOutput

\* ---- Solve()
\* the requests for extra variables a caller makes
NameLists ==
  { <<>>,
    << <<"Cai">> >>,
    << <<"Cai">>, <<"Nai", "__IDX__", "1">> >>,
    << <<"Nai", "__IDX__", "1">>, <<"Cai">> >>,
    << <<"Cai", "__IDX__", "0">>, <<"Nai", "__IDX__", "2">> >>,
    << <<"Nai", "__IDX__", "3">> >> }

DataConfig(end) == [end |-> end, steps |-> <<1, 1>>, dir |-> "dir"]

\* lines 376-441 and 810-886 up to the construction of the writer
DataSolveEnters(end, names, post) ==
  /\ pc = "idle" /\ problemDim > 0
  /\ Configured(DataConfig(end))
  /\ PreSolveChecksPass(DataConfig(end))
  /\ VecsFit(DataConfig(end))
  /\ mPrintOutput
  /\ mpSolver = "null" \/ ndebug
  /\ mpWriter = "null"
  /\ ~ResumeConflict
  /\ mpBoundaryConditionsContainer' = ContainerForSolve
  /\ mpDefaultBoundaryConditionsContainer' =
       mpDefaultBoundaryConditionsContainer + (IF BuildsDefaultContainer THEN 1 ELSE 0)
  /\ outputVariables' = names
  /\ postProcessingRequested' = post
  /\ openMode' = IF ExtendFile THEN "extend" ELSE "define"
  /\ fileAtOpen' = RowsKeptAtOpen
  /\ initialRow' = <<>> /\ committedTimes' = <<>> /\ solveLog' = <<>>
  /\ rowsPut' = <<>> /\ cellQueries' = {}
  /\ mVoltageColumnId' =
       ColumnId(<<"V">>, IF ExtendFile THEN fileColumns ELSE ColumnsDefined(names))
  /\ UNCHANGED <<ndebug, tsVars, parVars, ownVars, cryptVars, componentVars, mPrintOutput, meshVars,
                 mpCardiacTissue, mSolution, mCurrentTime, leakVars, problemDim,
                 cellVoltage, nodeRegion, permutationApplies, orderingRequested>>

\* line 725: GetVariableByName() throws for a name the file has no column of;
\* the catch block of lines 424-441 deletes writer and solver and rethrows
DataSolveColumnMissing(end, names, post) ==
  /\ DataSolveEnters(end, names, post)
  /\ ExtendFile
  /\ \E i \in 1..Len(names) : names[i] \notin {fileColumns[c] : c \in 1..Len(fileColumns)}
  /\ LET found == CHOOSE k \in 0..Len(names) :
                    /\ \A i \in 1..k :
                         names[i] \in {fileColumns[c] : c \in 1..Len(fileColumns)}
                    /\ names[k + 1] \notin {fileColumns[c] : c \in 1..Len(fileColumns)}
     IN mExtraVariablesId' = ExtraVariablesId(SubSeq(names, 1, found), fileColumns)
  /\ pc' = "idle"
  /\ mpSolver' = "dangling"
  /\ mpWriter' = "null"
  /\ initial_condition' = 0 /\ stepperTime' = 0
  /\ lastOutcome' = "WriterInitFailed"
  /\ calls' = <<"PreSolveChecks", "CreateSolver", "InitialiseWriter",
                "delete mpWriter", "delete mpSolver", "throw">>
  /\ UNCHANGED <<vecDestroys, vecData, fileVars, fileColumns, fileDerived,
                 originalNodeOrdering, orderingOutcome, convertedOutput>>

\* lines 875-881
OrderingOutcome ==
  IF ~originalNodeOrdering THEN "off"
  ELSE IF permutationApplies THEN "applied" ELSE "inapplicable"

\* lines 376-441 and 810-886: the writer is open, its columns are resolved
DataSolveOpens(end, names, post) ==
  /\ DataSolveEnters(end, names, post)
  /\ ExtendFile =>
       \A i \in 1..Len(names) : names[i] \in {fileColumns[c] : c \in 1..Len(fileColumns)}
  /\ pc' = "opened"
  /\ mpSolver' = "live"
  /\ mpWriter' = "open"
  /\ initial_condition' = InitialCondition
  /\ vecDestroys' = VecsWithInitialCondition
  /\ \E unset \in Voltages :
       vecData' = IF mSolution # 0 THEN vecData
                  ELSE Append(vecData, CreateInitialCondition(unset))
  /\ stepperTime' = mCurrentTime
  /\ fileExists' = TRUE
  /\ fileTimes' = RowsKeptAtOpen
  /\ fileColumns' = IF ExtendFile THEN fileColumns ELSE ColumnsDefined(names)
  /\ fileDerived' = (ExtendFile /\ fileDerived)
  /\ convertedOutput' = IF ExtendFile THEN convertedOutput ELSE <<>>
  /\ mExtraVariablesId' = ExtraVariablesId(names, fileColumns')
  /\ orderingOutcome' = OrderingOutcome
  /\ originalNodeOrdering' = (originalNodeOrdering /\ permutationApplies)
  /\ lastOutcome' = "Solving"
  /\ calls' = <<"PreSolveChecks", "CreateSolver", "InitialiseWriter">>

\* every variable the steps of an opened run leave alone
dataRunFrame ==
  <<ndebug, tsVars, parVars, ownVars, cryptVars, componentVars, cfgVars, mPrintOutput, meshVars,
    mpCardiacTissue, bccVars, leakVars, fileAtOpen, openMode, solveLog,
    problemDim, cellVoltage, nodeRegion, permutationApplies, outputVariables,
    postProcessingRequested, originalNodeOrdering, orderingRequested,
    orderingOutcome, fileColumns, mVoltageColumnId, mExtraVariablesId>>

\* lines 449-452: the initial row, unless resuming into an extended file
DataInitialRow ==
  /\ pc = "opened"
  /\ pc' = "loop"
  /\ IF ~(mSolution # 0 /\ openMode = "extend")
       THEN /\ ~NeverReached(outputVariables)
            /\ rowsPut' = WriteOneStep(initial_condition, mCurrentTime)
            /\ cellQueries' = QueriesOfOneStep(mCurrentTime)
            /\ initialRow' = <<stepperTime>>
            /\ fileTimes' = Append(fileTimes, stepperTime)
            /\ calls' = <<"WriteOneStep">> \o StartCalls
       ELSE /\ calls' = StartCalls
            /\ UNCHANGED <<rowsPut, cellQueries, initialRow, fileTimes>>
  /\ UNCHANGED <<dataRunFrame, mpSolver, mSolution, mCurrentTime, mpWriter,
                 localVars, vecDestroys, vecData, fileExists, fileDerived,
                 lastOutcome, committedTimes, convertedOutput>>

\* lines 484-563: the solver returns a new vector, the row of the step is put
DataSolveIteration ==
  /\ pc = "loop"
  /\ stepperTime < endTime
  /\ ~NeverReached(outputVariables)
  /\ mSolution' = NewVec(vecDestroys)
  /\ vecDestroys' = Destroyed(Allocated(vecDestroys), initial_condition)
  /\ vecData' = Append(vecData, <<>>)
  /\ initial_condition' = mSolution'
  /\ stepperTime' = stepperTime + 1
  /\ mCurrentTime' = stepperTime'
  /\ committedTimes' = Append(committedTimes, stepperTime')
  /\ rowsPut' = WriteOneStep(mSolution', mCurrentTime')
  /\ cellQueries' = QueriesOfOneStep(mCurrentTime')
  /\ fileTimes' = Append(fileTimes, stepperTime')
  /\ calls' = IterationCalls
  /\ UNCHANGED <<dataRunFrame, pc, mpSolver, mpWriter, fileExists, fileDerived,
                 lastOutcome, initialRow, convertedOutput>>

\* line 797 is reached while a row is written: the program stops
DataRowNeverReached ==
  /\ \/ pc = "opened" /\ ~(mSolution # 0 /\ openMode = "extend")
     \/ pc = "loop" /\ stepperTime < endTime
  /\ NeverReached(outputVariables)
  /\ pc' = "aborted"
  /\ lastOutcome' = "NeverReached"
  /\ UNCHANGED <<dataRunFrame, mpSolver, mSolution, mCurrentTime, mpWriter,
                 localVars, vecDestroys, vecData, fileVars, fileDerived, calls,
                 initialRow, committedTimes, rowsPut, cellQueries,
                 convertedOutput>>

\* lines 566-576
DataSolveCompletes ==
  /\ pc = "loop"
  /\ stepperTime >= endTime
  /\ pc' = "idle"
  /\ mpSolver' = "null"
  /\ initial_condition' = 0 /\ stepperTime' = 0
  /\ CloseFilesAndPostProcessData
  /\ lastOutcome' = "Returned"
  /\ calls' = CompletionCalls
  /\ UNCHANGED <<dataRunFrame, mSolution, mCurrentTime, vecDestroys, vecData,
                 fileVars, initialRow, committedTimes, rowsPut, cellQueries>>

\* lines 579-672, called by the caller on a problem that is not solving and
\* has a checkpoint file
CloseFilesAndPostProcess ==
  /\ pc = "idle"
  /\ fileExists
  /\ CloseFilesAndPostProcessData
  /\ lastOutcome' = "Closed"
  /\ calls' = CloseFilesAndPostProcessCalls
  /\ UNCHANGED <<dataRunFrame, pc, mpSolver, mSolution, mCurrentTime, localVars,
                 vecDestroys, vecData, fileVars, initialRow, committedTimes,
                 rowsPut, cellQueries>>

\* ---- Solve() on problems of every PROBLEM_DIM and cell voltages
AllTissue == [n \in Nodes |-> "tissue"]

RestingCells == [n \in Nodes |-> -85]

NextInitialCondition ==
  \/ \E dim \in 1..MaxProblemDim, voltages \in [Nodes -> Voltages] :
       ProblemConstructed(dim, voltages, AllTissue, FALSE)
  \/ Initialise
  \/ \E end \in 1..MaxEndTime : DataSolveOpens(end, <<>>, FALSE)
  \/ DataInitialRow
  \/ DataSolveIteration
  \/ DataSolveCompletes

SpecInitialCondition == Init /\ [][NextInitialCondition]_vars

\* ---- Solve() with extra output variables, on meshes with bath nodes
NextColumns ==
  \/ \E regions \in [Nodes -> {"tissue", "bath"}] :
       ProblemConstructed(1, RestingCells, regions, FALSE)
  \/ Initialise
  \/ \E end \in 1..MaxEndTime, names \in NameLists :
       DataSolveOpens(end, names, FALSE)
  \/ \E end \in 1..MaxEndTime, names \in NameLists :
       DataSolveColumnMissing(end, names, FALSE)
  \/ DataInitialRow
  \/ DataSolveIteration
  \/ DataRowNeverReached
  \/ DataSolveCompletes

SpecColumns == Init /\ [][NextColumns]_vars

\* ---- Solve() with output in the original node ordering, post-processing
NextOrdering ==
  \/ \E permutes \in BOOLEAN :
       ProblemConstructed(1, RestingCells, AllTissue, permutes)
  \/ \E flag \in BOOLEAN : SetOutputUsingOriginalNodeOrdering(flag)
  \/ Initialise
  \/ \E end \in 1..MaxEndTime, post \in BOOLEAN : DataSolveOpens(end, <<>>, post)
  \/ DataInitialRow
  \/ DataSolveIteration
  \/ DataSolveCompletes
  \/ CloseFilesAndPostProcess

SpecOrdering == Init /\ [][NextOrdering]_vars

\* ================================================ the vertex crypt simulation
\* VertexCryptSimulation2d::UpdateNodePositions(), as the crypt base test
\* drives it: a tissue on a honeycomb mesh whose lowest nodes lie on y = 0,
\* made-up forces that push right and up, one update.  Lengths, forces and
\* the time step are whole numbers of a common unit.
CryptNodes == 1..NumCryptNodes

\* the base of the crypt is y = 0
NodeLocations == {<<x, y>> : x \in {0, 3}, y \in {0, 1}}

NodeForces == {<<fx, fy>> : fx \in {0, 1}, fy \in {0, 2}}

TimeSteps == {1, 2}

\* the mesh is generated and the simulation constructed on its tissue
CryptSimulationConstructed(locations) ==
  /\ nodeLocations = <<>>
  /\ nodeLocations' = locations
  /\ UNCHANGED <<ndebug, cfgVars, pc, mPrintOutput, meshVars, mpCardiacTissue,
                 bccVars, mpSolver, mSolution, mCurrentTime, mpWriter,
                 localVars, vecDestroys, fileVars, lastOutcome, calls, histVars,
                 leakVars, tsVars, parVars, ownVars, dataVars, componentVars,
                 old_node_locations, forces, mDt>>

SetDt(dt) ==
  /\ nodeLocations # <<>> /\ forces = <<>>
  /\ mDt' = dt
  /\ UNCHANGED <<ndebug, cfgVars, pc, mPrintOutput, meshVars, mpCardiacTissue,
                 bccVars, mpSolver, mSolution, mCurrentTime, mpWriter,
                 localVars, vecDestroys, fileVars, lastOutcome, calls, histVars,
                 leakVars, tsVars, parVars, ownVars, dataVars, componentVars,
                 nodeLocations, old_node_locations, forces>>

NewLocationUnpinned(old, force, dt) ==
  <<old[1] + dt * force[1], old[2] + dt * force[2]>>

\* the node moves by dt times the force on it; a node on the base keeps its
\* height
NewLocation(old, force, dt) ==
  <<old[1] + dt * force[1],
    IF old[2] > 0 THEN old[2] + dt * force[2] ELSE old[2]>>

UpdateNodePositions(rNodeForces) ==
  /\ nodeLocations # <<>> /\ forces = <<>>
  /\ old_node_locations' = nodeLocations
  /\ forces' = rNodeForces
  /\ nodeLocations' =
       [i \in CryptNodes |-> NewLocation(nodeLocations[i], rNodeForces[i], mDt)]
  /\ UNCHANGED <<ndebug, cfgVars, pc, mPrintOutput, meshVars, mpCardiacTissue,
                 bccVars, mpSolver, mSolution, mCurrentTime, mpWriter,
                 localVars, vecDestroys, fileVars, lastOutcome, calls, histVars,
                 leakVars, tsVars, parVars, ownVars, dataVars, componentVars, mDt>>

NextCrypt ==
  \/ \E locations \in [CryptNodes -> NodeLocations] :
       CryptSimulationConstructed(locations)
  \/ \E dt \in TimeSteps : SetDt(dt)
  \/ \E rNodeForces \in [CryptNodes -> NodeForces] :
       UpdateNodePositions(rNodeForces)

SpecCrypt == Init /\ [][NextCrypt]_vars

\* ============================== CloseFilesAndPostProcess(), step by step
\* every variable of the cardiac problem and of the crypt simulation above
heartFrame ==
  <<ndebug, cfgVars, pc, mPrintOutput, meshVars, mpCardiacTissue, bccVars,
    mpSolver, mSolution, mCurrentTime, mpWriter, localVars, vecDestroys,
    fileVars, lastOutcome, calls, histVars, leakVars, tsVars, parVars, ownVars,
    dataVars, cryptVars>>

\* the converters, in the order of lines 623-669
Converters == <<"Meshalyzer", "Cmgui", "Vtk", "ParallelVtk">>

\* what a Solve() can find: the output switch, IsPostProcessingRequested(),
\* whether mNodesToOutput selects a subset, the GetVisualizeWith...() flags
CloseConfigs ==
  [print : BOOLEAN, post : BOOLEAN, subset : BOOLEAN,
   formats : SUBSET {Converters[i] : i \in 1..Len(Converters)}]

CloseStepsConvertingSubsets(cfg) ==
  IF ~cfg.print THEN <<>>
  ELSE <<"delete mpWriter">>
         \o (IF cfg.post THEN <<"WritePostProcessingFiles">> ELSE <<>>)
         \o SelectSeq(Converters, LAMBDA c : c \in cfg.formats)

\* lines 579-672, in program order
CloseSteps(cfg) ==
  IF ~cfg.print THEN <<>>
  ELSE <<"delete mpWriter">>
         \o (IF cfg.post THEN <<"WritePostProcessingFiles">> ELSE <<>>)
         \o (IF ~cfg.subset
               THEN SelectSeq(Converters, LAMBDA c : c \in cfg.formats)
               ELSE <<>>)

\* a Solve() has reached its loop; with output on its writer is open
SolveRunsWith(cfg) ==
  /\ closePath # "solving"
  /\ closeConfig' = cfg
  /\ closeWriter' = IF cfg.print THEN "open" ELSE "null"
  /\ closePath' = "solving"
  /\ closeLog' = <<>>
  /\ UNCHANGED <<heartFrame, volVars, t1Vars, archiveVars>>

\* lines 579-672, called at line 575 (how = "completed") or 522 ("failed")
CloseFilesAndPostProcessFrom(how) ==
  /\ closePath = "solving"
  /\ closePath' = how
  /\ closeLog' = CloseSteps(closeConfig)
  /\ closeWriter' = IF closeConfig.print THEN "null" ELSE closeWriter
  /\ UNCHANGED <<heartFrame, volVars, t1Vars, archiveVars, closeConfig>>

NextClose ==
  \/ \E cfg \in CloseConfigs : SolveRunsWith(cfg)
  \/ \E how \in {"completed", "failed"} : CloseFilesAndPostProcessFrom(how)

SpecClose == Init /\ [][NextClose]_vars

\* ===================================== the volume-tracked off-lattice simulation
\* VolumeTrackedOffLatticeSimulation on a cell population.  A time step of
\* the simulation moves the cells, lets some divide and some die; the volume
\* of cell c in the geometry of version v is written <<c, v>>.
PopulationKinds == {"mesh", "vertex"}

\* the simulation is constructed on a population of one or two cells, whose
\* tessellation, if it has one, is up to date
VolumeTrackedConstructed(kind, n) ==
  /\ simPhase = "none"
  /\ simPhase' = "constructed"
  /\ population' = [kind |-> kind, cells |-> 1..n, born |-> n, version |-> 0,
                    updated |-> 0, tess |-> 0, tessCells |-> 1..n]
  /\ UNCHANGED <<heartFrame, closeVars, t1Vars, archiveVars, cellData, refreshLog>>

\* mrCellPopulation.Update(): the population catches up with its geometry
Update(pop) == [pop EXCEPT !.updated = pop.version]

TessellationLeftAsItIs(pop) == pop

\* lines 82-85: a mesh-based population regenerates its Voronoi tessellation
CreateVoronoiTessellation(pop) ==
  IF pop.kind = "mesh"
    THEN [pop EXCEPT !.tess = pop.updated, !.tessCells = pop.cells]
    ELSE pop

\* mrCellPopulation.GetVolumeOfCell(): a mesh-based population reads the
\* Voronoi element of the cell; <<c, -1>> when the tessellation has none
GetVolumeOfCell(pop, c) ==
  IF pop.kind = "mesh"
    THEN (IF c \in pop.tessCells THEN <<c, pop.tess>> ELSE <<c, -1>>)
    ELSE <<c, pop.updated>>

\* lines 68-100
UpdateCellData ==
  /\ population' = CreateVoronoiTessellation(Update(population))
  /\ cellData' = [c \in population.cells |-> GetVolumeOfCell(population', c)]
  /\ refreshLog' =
       <<"Update">>
         \o (IF population.kind = "mesh"
               THEN <<"CreateVoronoiTessellation">> ELSE <<>>)
         \o [i \in 1..Cardinality(population.cells) |-> "GetVolumeOfCell"]

\* lines 52-59, called by Solve() before the first time step
SetupSolve ==
  /\ simPhase = "constructed"
  /\ simPhase' = "loop"
  /\ UpdateCellData
  /\ UNCHANGED <<heartFrame, closeVars, t1Vars, archiveVars>>

\* one time step of Solve() up to UpdateAtEndOfTimeStep(): the cells move,
\* `births` of them divide and the cells in `deaths` are removed
TimeStep(births, deaths) ==
  /\ simPhase = "loop"
  /\ population.version < MaxTimeSteps
  /\ population.born + births <= MaxCells
  /\ deaths \subseteq population.cells
  /\ Cardinality(deaths) <= 1
  /\ deaths # population.cells
  /\ simPhase' = "stepped"
  /\ population' =
       [population EXCEPT
          !.cells = (@ \ deaths)
                      \cup ((population.born + 1)..(population.born + births)),
          !.born = @ + births,
          !.version = @ + 1]
  /\ UNCHANGED <<heartFrame, closeVars, t1Vars, archiveVars, cellData, refreshLog>>

\* lines 61-66, called by Solve() at the end of the time step
UpdateAtEndOfTimeStep ==
  /\ simPhase = "stepped"
  /\ simPhase' = "loop"
  /\ UpdateCellData
  /\ UNCHANGED <<heartFrame, closeVars, t1Vars, archiveVars>>

NextVolumeTracked ==
  \/ \E kind \in PopulationKinds, n \in 1..2 : VolumeTrackedConstructed(kind, n)
  \/ SetupSolve
  \/ \E births \in 0..2, deaths \in SUBSET (1..MaxCells) : TimeStep(births, deaths)
  \/ UpdateAtEndOfTimeStep

SpecVolumeTracked == Init /\ [][NextVolumeTracked]_vars

\* ============================================ the T1-swap-locations writer
\* VertexT1SwapLocationsWriter visiting a cell population at every output
\* time; a location is a vector of SPACE_DIM coordinates.
CellPopulations ==
  {"MeshBased", "CaBased", "NodeBased", "PottsBased", "VertexBased"}

T1SwapLocations == {<<0, 1>>, <<1, 1>>}

\* the writer is attached to a population of one kind
WriterAddedTo(kind) ==
  /\ visitedPopulation = "none"
  /\ visitedPopulation' = kind
  /\ UNCHANGED <<heartFrame, closeVars, volVars, archiveVars, mLocationsOfT1Swaps,
                 outStream, swapHistory, visits>>

\* the vertex mesh performs a T1 swap and records where
PerformT1Swap(location) ==
  /\ visitedPopulation = "VertexBased"
  /\ Len(swapHistory) < MaxT1Swaps
  /\ mLocationsOfT1Swaps' = Append(mLocationsOfT1Swaps, location)
  /\ swapHistory' = Append(swapHistory, location)
  /\ UNCHANGED <<heartFrame, closeVars, volVars, archiveVars, visitedPopulation,
                 outStream, visits>>

\* lines 77-83: the coordinates of the locations, one after the other
RECURSIVE Coordinates(_)
Coordinates(locations) ==
  IF locations = <<>> THEN <<>>
  ELSE Head(locations) \o Coordinates(Tail(locations))

LocationsOfT1SwapsKept(locations) == locations

\* line 85: rGetMesh().ClearLocationsOfT1Swaps()
ClearLocationsOfT1Swaps(locations) == <<>>

\* lines 50-86: the five overloads of Visit()
Visit ==
  /\ visitedPopulation \in CellPopulations
  /\ visits < MaxVisits
  /\ visits' = visits + 1
  /\ IF visitedPopulation = "VertexBased"
       THEN /\ outStream' =
                 Append(outStream, <<Len(mLocationsOfT1Swaps)>>
                                     \o Coordinates(mLocationsOfT1Swaps))
            /\ mLocationsOfT1Swaps' =
                 ClearLocationsOfT1Swaps(mLocationsOfT1Swaps)
       ELSE UNCHANGED <<outStream, mLocationsOfT1Swaps>>
  /\ UNCHANGED <<heartFrame, closeVars, volVars, archiveVars, visitedPopulation,
                 swapHistory>>

NextT1Writer ==
  \/ \E kind \in CellPopulations : WriterAddedTo(kind)
  \/ \E location \in T1SwapLocations : PerformT1Swap(location)
  \/ Visit

SpecT1Writer == Init /\ [][NextT1Writer]_vars

\* ======================================= the archive of the cylindrical mesh
\* A vertex crypt simulation on a Cylindrical2dVertexMesh is saved and loaded
\* back.  A node has a deleted flag, an index and a location; an element is
\* the list of the global indices of its nodes; the archive is the list of
\* the values written to it.
MeshNodeStates ==
  {[deleted |-> FALSE, location |-> <<0, 0>>],
   [deleted |-> FALSE, location |-> <<1, 2>>],
   [deleted |-> TRUE, location |-> <<2, 1>>]}

\* an element lists some of the n nodes, up or down
ElementsOver(n) ==
  {e \in UNION {[1..k -> 0..(n - 1)] : k \in 1..n} :
     \/ \A i \in 1..(Len(e) - 1) : e[i] < e[i + 1]
     \/ \A i \in 1..(Len(e) - 1) : e[i] > e[i + 1]}

\* the mesh of the nodes in these states, these elements and this width
CylindricalMesh(states, elements, width) ==
  [nodes |-> [i \in 1..Len(states) |->
                [deleted |-> states[i].deleted, index |-> i - 1,
                 location |-> states[i].location]],
   elements |-> elements,
   mWidth |-> width]

\* the mesh of the simulation is generated
CylindricalMeshGenerated(mesh) ==
  /\ archivePhase = "none"
  /\ archivePhase' = "built"
  /\ p_mesh' = mesh
  /\ UNCHANGED <<heartFrame, closeVars, volVars, t1Vars, archive, r_mesh>>

\* what the base mesh writes: the number of nodes, for each node its index,
\* its deleted flag and its coordinates, the number of elements, for each
\* element its number of nodes and their global indices
RECURSIVE Flattened(_)
Flattened(seqs) ==
  IF seqs = <<>> THEN <<>> ELSE Head(seqs) \o Flattened(Tail(seqs))

BaseObject(mesh) ==
  <<Len(mesh.nodes)>>
    \o Flattened([i \in 1..Len(mesh.nodes) |->
                    <<mesh.nodes[i].index,
                      IF mesh.nodes[i].deleted THEN 1 ELSE 0>>
                      \o mesh.nodes[i].location])
    \o <<Len(mesh.elements)>>
    \o Flattened([i \in 1..Len(mesh.elements) |->
                    <<Len(mesh.elements[i])>> \o mesh.elements[i]])

serializeBaseObjectOnly(mesh) == BaseObject(mesh)

\* lines 73-78, saving: the base object, then mWidth
serialize(mesh) == BaseObject(mesh) \o <<mesh.mWidth>>

\* what the base mesh reads back: the nodes, then the elements
NodesRead(values) ==
  [i \in 1..values[1] |->
     [index |-> values[4 * i - 2],
      deleted |-> values[4 * i - 1] = 1,
      location |-> <<values[4 * i], values[4 * i + 1]>>]]

RECURSIVE ElementsRead(_, _)
ElementsRead(values, count) ==
  IF count = 0 THEN <<>>
  ELSE <<SubSeq(values, 2, 1 + values[1])>>
         \o ElementsRead(SubSeq(values, 2 + values[1], Len(values)), count - 1)

\* the number of values the base object takes from the archive
BaseObjectLength(values) ==
  LET n == values[1]
      count == values[4 * n + 2]
      rest == SubSeq(values, 4 * n + 3, Len(values))
  IN  4 * n + 2 + count + Len(Flattened(ElementsRead(rest, count)))

\* TissueSimulationArchiver::Save(&simulator)
Save ==
  /\ archivePhase = "built"
  /\ archivePhase' = "saved"
  /\ archive' = serialize(p_mesh)
  /\ UNCHANGED <<heartFrame, closeVars, volVars, t1Vars, p_mesh, r_mesh>>

\* TissueSimulationArchiver::Load(): lines 73-78, loading; reading past the
\* end of the archive throws
Load ==
  /\ archivePhase = "saved"
  /\ LET n == archive[1]
         count == archive[4 * n + 2]
         base == BaseObjectLength(archive)
     IN  IF base < Len(archive)
           THEN /\ archivePhase' = "loaded"
                /\ r_mesh' =
                     [nodes |-> NodesRead(archive),
                      elements |->
                        ElementsRead(SubSeq(archive, 4 * n + 3, Len(archive)),
                                     count),
                      mWidth |-> archive[base + 1]]
           ELSE /\ archivePhase' = "archive_exception"
                /\ UNCHANGED r_mesh
  /\ UNCHANGED <<heartFrame, closeVars, volVars, t1Vars, p_mesh, archive>>

NextArchive ==
  \/ /\ archivePhase = "none"
     /\ \E n \in 1..MaxMeshNodes, k \in 0..MaxMeshElements :
          \E states \in [1..n -> MeshNodeStates],
             elements \in [1..k -> ElementsOver(n)],
             width \in {3, 4} :
            CylindricalMeshGenerated(CylindricalMesh(states, elements, width))
  \/ Save
  \/ Load

SpecArchive == Init /\ [][NextArchive]_vars

\* ================================================================= claims
Range(s) == {s[i] : i \in 1..Len(s)}

\* a occurs before b in the sequence of calls s
Before(s, a, b) == \E i, j \in 1..Len(s) : i < j /\ s[i] = a /\ s[j] = b

AllVecs == 1..Len(vecDestroys)

\* this step is a call of Solve()
SolveCalled == pc = "idle" /\ pc' # "destroyed" /\ lastOutcome' # "none"

\* this step is a call of Solve() that gets as far as InitialiseWriter()
ReachesInitialiseWriter ==
  SolveCalled /\ mPrintOutput /\ lastOutcome' \notin {"PreSolveRejected", "AssertFailed"}

\* this step is a loop iteration of Solve() that commits its interval
IterationCommitted ==
  pc = "loop" /\ pc' = "loop" /\ Len(committedTimes') = Len(committedTimes) + 1

\* this step is a loop iteration of Solve() in which the solver throws
SolverFails == pc = "loop" /\ lastOutcome' = "SolverFailure"

\* C1: over every sequence of Initialise(), Solve() and PrintOutput() calls
\* with solver failures in any iteration, no field vector is ever destroyed
\* twice, and once the problem is destroyed every vector that was allocated
\* has been destroyed exactly once.
C1_VectorsDestroyedExactlyOnce ==
  /\ \A v \in AllVecs : vecDestroys[v] <= 1
  /\ pc = "destroyed" => \A v \in AllVecs : vecDestroys[v] = 1

\* a problem destroyed after a Solve() whose solver failed in a later
\* iteration, with every vector destroyed once
C1_Witness ==
  /\ pc = "destroyed"
  /\ lastOutcome = "SolverFailure"
  /\ Len(committedTimes) >= 1
  /\ Len(vecDestroys) >= 2
  /\ \A v \in AllVecs : vecDestroys[v] = 1

C3_FileHoldsRowsBeforeFailure ==
  (lastOutcome = "SolverFailure" /\ mPrintOutput) =>
    /\ mpWriter = "null"
    /\ fileExists
    /\ fileTimes = fileAtOpen \o initialRow \o committedTimes

C3_Witness ==
  /\ pc = "idle"
  /\ lastOutcome = "SolverFailure"
  /\ mPrintOutput
  /\ initialRow # <<>>
  /\ Len(committedTimes) >= 1
  /\ fileTimes = initialRow \o committedTimes

\* C4: an iteration in which the solver throws ends Solve() with a throw and
\* never with a return, after, in this order: the solver deleted and its handle
\* cleared, the initial condition destroyed if and only if it is not the
\* current solution, the event handler reset, and CloseFilesAndPostProcess()
\* (which, with output on, deletes the writer and then post-processes).
C4_FailureRethrownAfterCleanup ==
  [][SolverFails =>
       /\ pc' = "idle"
       /\ Last(calls') = "throw"
       /\ "return" \notin Range(calls')
       /\ mpSolver' = "null"
       /\ Before(calls', "solver.Solve", "delete mpSolver")
       /\ Before(calls', "delete mpSolver", "mpSolver = nullptr")
       /\ ("Destroy(initial_condition)" \in Range(calls'))
            = (initial_condition # mSolution)
       /\ initial_condition # mSolution =>
            /\ Before(calls', "mpSolver = nullptr", "Destroy(initial_condition)")
            /\ Before(calls', "Destroy(initial_condition)", "HeartEventHandler::Reset")
            /\ vecDestroys'[initial_condition] = vecDestroys[initial_condition] + 1
       /\ initial_condition = mSolution => vecDestroys' = vecDestroys
       /\ Before(calls', "mpSolver = nullptr", "HeartEventHandler::Reset")
       /\ Before(calls', "HeartEventHandler::Reset", "CloseFilesAndPostProcess")
       /\ Before(calls', "CloseFilesAndPostProcess", "throw")
       /\ mPrintOutput =>
            /\ mpWriter' = "null"
            /\ Before(calls', "CloseFilesAndPostProcess", "delete mpWriter")
            /\ Before(calls', "delete mpWriter", "post-processing")
            /\ Before(calls', "post-processing", "throw")]_vars

\* a fresh Solve() with output whose solver failed in the first iteration:
\* the initial condition was destroyed on the way out
C4_Witness ==
  /\ pc = "idle"
  /\ lastOutcome = "SolverFailure"
  /\ mPrintOutput
  /\ "Destroy(initial_condition)" \in Range(calls)
  /\ Last(calls) = "throw"

\* the configuration of this call passes PreSolveChecks and the solver
\* handle is null, or asserts are compiled out
CallGetsPastChecks ==
  /\ mpCardiacTissue # "null"
  /\ endTime' > mCurrentTime
  /\ ~(mPrintOutput /\ outputDirectory' = "")
  /\ endTime' % pdeStep' = 0
  /\ mpSolver = "null" \/ ndebug

\* C5: a Solve() called with a retained solution and output enabled while the
\* file's last recorded time is greater than the current time never gets to
\* the loop; it fails with the resume conflict (whenever the call gets as far
\* as InitialiseWriter()), and it leaves the file, its rows, the retained
\* solution (still live) and the current time unchanged, with no writer opened.
C5_ResumeConflictChangesNothing ==
  [][(/\ SolveCalled
      /\ mSolution # 0
      /\ mPrintOutput
      /\ fileExists
      /\ Last(fileTimes) > mCurrentTime) =>
       /\ pc' # "loop"
       /\ CallGetsPastChecks => lastOutcome' = "ResumeConflict"
       /\ UNCHANGED <<fileExists, fileTimes, mSolution, mCurrentTime, vecDestroys>>
       /\ vecDestroys[mSolution] = 0
       /\ openMode' = "none"
       /\ mpWriter' = "null"]_vars

C5_Witness ==
  /\ pc = "idle"
  /\ lastOutcome = "ResumeConflict"
  /\ mSolution # 0
  /\ vecDestroys[mSolution] = 0
  /\ fileExists
  /\ Last(fileTimes) > mCurrentTime
  /\ mpWriter = "null"

\* C6: when Solve() is called with a retained solution and output enabled and
\* a checkpoint file exists, the call fails with the resume conflict if and
\* only if the file's last time exceeds the current time; otherwise the writer
\* is constructed in extend mode, never in define mode, and the rows of the
\* file are kept.
C6_ExtendsIffNotAhead ==
  [][(ReachesInitialiseWriter /\ mSolution # 0 /\ fileExists) =>
       /\ (lastOutcome' = "ResumeConflict") = (Last(fileTimes) > mCurrentTime)
       /\ openMode' # "define"
       /\ (openMode' = "extend") => Last(fileTimes) <= mCurrentTime
       /\ (Last(fileTimes) <= mCurrentTime /\ lastOutcome' = "Solving") =>
            /\ openMode' = "extend"
            /\ fileAtOpen' = fileTimes
       /\ fileExists' /\ fileTimes' = fileTimes]_vars

\* a resumed Solve() that opened its writer in extend mode on a file whose
\* last time is the resume time
C6_Witness ==
  /\ pc = "loop"
  /\ lastOutcome = "Solving"
  /\ openMode = "extend"
  /\ mSolution # 0
  /\ fileAtOpen # <<>>
  /\ fileTimes = fileAtOpen
  /\ Last(fileAtOpen) <= mCurrentTime

\* C7 (as stated): a Solve() called with a printing interval that does not
\* divide (end time - current time) is rejected by PreSolveChecks.
C7_PrintingStepMustDivide ==
  [][(SolveCalled /\ endTime' > mCurrentTime
        /\ (endTime' - mCurrentTime) % printStep' # 0) =>
       lastOutcome' = "PreSolveRejected"]_vars

\* C7 (amended): a Solve() called with a PDE time step that does not divide
\* the end time is rejected by PreSolveChecks: nothing is allocated (no solver,
\* no vector, no writer) and the checkpoint file is neither created nor changed.
C7_PdeStepMustDivide ==
  [][(SolveCalled /\ endTime' % pdeStep' # 0) =>
       /\ lastOutcome' = "PreSolveRejected"
       /\ pc' = "idle"
       /\ UNCHANGED <<mpSolver, mpWriter, vecDestroys, fileExists, fileTimes>>]_vars

\* a Solve() rejected for its PDE time step alone
C7_Witness ==
  /\ lastOutcome = "PreSolveRejected"
  /\ endTime % pdeStep # 0
  /\ mpCardiacTissue = "live"
  /\ endTime > mCurrentTime
  /\ outputDirectory # ""

\* C8: a Solve() called without a tissue, with an end time not after the
\* current time, with output enabled and no output directory, or with a PDE
\* time step not dividing the end time, is rejected, and a rejected Solve()
\* changes nothing: solver, boundary conditions container, vectors, writer,
\* current time, retained solution and checkpoint file are as before.
C8_RejectionChangesNothing ==
  [][SolveCalled =>
       /\ (\/ mpCardiacTissue = "null"
           \/ endTime' <= mCurrentTime
           \/ (mPrintOutput /\ outputDirectory' = "")
           \/ endTime' % pdeStep' # 0) => lastOutcome' = "PreSolveRejected"
       /\ lastOutcome' = "PreSolveRejected" =>
            /\ pc' = "idle"
            /\ UNCHANGED <<mpSolver, mpBoundaryConditionsContainer, mSolution,
                           vecDestroys, mpWriter, mCurrentTime, fileExists,
                           fileTimes, mpCardiacTissue, mPrintOutput>>]_vars

\* a Solve() rejected for its end time on a problem that holds a solution
\* and has a checkpoint file
C8_Witness ==
  /\ lastOutcome = "PreSolveRejected"
  /\ mpCardiacTissue = "live"
  /\ endTime <= mCurrentTime
  /\ mSolution # 0
  /\ fileExists

\* C9: when WriteOneStep() throws, for the initial row or in the loop, Solve()
\* unwinds as for a solver failure: the solver is deleted and its handle
\* cleared, every vector that is not the current solution has been destroyed,
\* and the writer is closed.
C9_WriteFailureUnwinds ==
  lastOutcome = "WriteFailure" =>
    /\ mpSolver = "null"
    /\ mpWriter = "null"
    /\ \A v \in AllVecs : vecDestroys[v] = 0 => v = mSolution

\* C10: no open writer survives a Solve() call: whenever Solve() is not
\* running, the writer handle is null.
C10_NoWriterSurvivesSolve ==
  pc = "idle" => mpWriter = "null"

IsPrefix(s, t) == Len(s) <= Len(t) /\ \A i \in 1..Len(s) : s[i] = t[i]

\* the process has left Solve()
Left(p) == procPc[p] \in {"failed", "threw", "done"}

\* C11: when a process has taken the failure path of an iteration, no other
\* process has committed that iteration: none has advanced its time beyond
\* the failing process, started a later iteration, or entered a collective
\* call the failing process never reaches.
C11_FailureIsGroupWide ==
  \A p, q \in Procs :
    procPc[p] = "failed" =>
      /\ procTime[q] <= procTime[p]
      /\ Len(procOutcomes[q]) <= Len(procOutcomes[p])
      /\ Len(procCalls[q]) <= Len(procCalls[p])

\* C12: the processes of a group execute the same sequence of collective
\* calls in lockstep and hold the same current time: the calls of one
\* process are a prefix of the calls of the other, and no process enters
\* a collective call, or advances its time, beyond a process that has left
\* Solve().
C12_SameTimeAndCallsOnEveryProcess ==
  \A p, q \in Procs :
    /\ IsPrefix(procCalls[p], procCalls[q]) \/ IsPrefix(procCalls[q], procCalls[p])
    /\ Left(p) =>
         /\ Len(procCalls[q]) <= Len(procCalls[p])
         /\ procTime[q] <= procTime[p]

\* the process has constructed its checkpoint writer
WriterOpened(p) ==
  procPc[p] \in {"opened", "writing", "loop", "solving", "replicating",
                 "failed", "done"}

\* C13: in a resumed Solve() no process checks the file before every process
\* has reached the barrier in front of the check, no process constructs its
\* writer before every process has finished its check, and all processes
\* reach the same decision (extend, new file, or conflict).
C13_SameExtendDecision ==
  \A p, q \in Procs :
    /\ (runResumed /\ procExtend[p] # "none") => procPc[q] # "enter"
    /\ (runResumed /\ WriterOpened(p)) => procExtend[q] # "none"
    /\ (procExtend[p] # "none" /\ procExtend[q] # "none") =>
         procExtend[p] = procExtend[q]

\* a resumed run that found no file: one process has created it, after
\* every process had decided to start a new file
C13_Witness ==
  /\ runResumed
  /\ sharedExists
  /\ \A p \in Procs : procExtend[p] = "fresh"
  /\ \E p, q \in Procs : procPc[p] = "opened" /\ procPc[q] = "barrier2"

\* C14: the times a TimeStepper reaches are strictly increasing, after the
\* start and not after the end; every additional stopping time after the
\* start and up to the current time has been reached; and when IsTimeAtEnd()
\* holds, the last time reached is the end time, so that the end time and
\* every additional stopping time strictly between start and end have been
\* reached exactly once.
C14_StepperVisitsStopsAndEndOnce ==
  StepperExists =>
    /\ \A i \in 1..Len(tsVisited) :
         /\ tsArgs.start < tsVisited[i] /\ tsVisited[i] <= tsArgs.end
         /\ i > 1 => tsVisited[i - 1] < tsVisited[i]
    /\ tsVisited # <<>> => tsTime = Last(tsVisited)
    /\ \A x \in SetOf(tsArgs.stops) :
         (tsArgs.start < x /\ x <= tsTime /\ x < tsArgs.end) =>
           Cardinality({i \in 1..Len(tsVisited) : tsVisited[i] = x}) = 1
    /\ tsTime >= tsArgs.end =>
         /\ tsTime = tsArgs.end
         /\ Cardinality({i \in 1..Len(tsVisited) : tsVisited[i] = tsArgs.end}) = 1
         /\ Last(tsVisited) = tsArgs.end

\* a stepper at its end that was given a repeated stopping time off the
\* regular boundaries and a stopping time before the start
C14_Witness ==
  /\ StepperExists
  /\ tsTime = tsArgs.end
  /\ tsArgs.dt = 2
  /\ tsArgs.start = 1
  /\ tsArgs.stops = <<2, 2>>
  /\ tsVisited = <<2, 3>>

\* C15: every committed iteration moves the stepper strictly forward and not
\* beyond the end time, and a Solve() that is in its loop leaves it: through
\* the completion or through the failure path.
C15_SolveTerminates ==
  /\ [][IterationCommitted =>
          (stepperTime < stepperTime' /\ stepperTime' <= endTime)]_vars
  /\ (pc = "loop") ~> (pc # "loop")

\* a Solve() that returned after several iterations
C15_Witness ==
  /\ pc = "idle"
  /\ lastOutcome = "Returned"
  /\ Len(committedTimes) >= 2
  /\ mCurrentTime = endTime

\* the rows this Solve() has written: <<time, Vec>> of each WriteOneStep
RowsWritten == SelectSeq(solveLog, LAMBDA e : e[1] = "WriteOneStep")

\* C16: a Solve() called without a retained solution and with output enabled
\* starts the file with one row at the start time, and while it runs and
\* when it has returned after k committed intervals the file holds exactly
\* k + 1 rows: that row and one row per committed interval at the time the
\* interval reached, in strictly increasing order.
C16_FreshSolveWritesOneRowPerInterval ==
  /\ [][(SolveCalled /\ mSolution = 0 /\ mPrintOutput /\ pc' = "loop") =>
          (fileTimes' = <<mCurrentTime>> /\ openMode' = "define")]_vars
  /\ []((mPrintOutput /\ openMode = "define"
           /\ lastOutcome \in {"Solving", "Returned"}) =>
          /\ Len(fileTimes) = Len(committedTimes) + 1
          /\ fileTimes = initialRow \o committedTimes
          /\ \A i \in 2..Len(fileTimes) : fileTimes[i - 1] < fileTimes[i]
          /\ (lastOutcome = "Returned" /\ endTime = printStep + fileTimes[1]) =>
               Len(fileTimes) = 2)

\* a fresh Solve() of one interval, end time equal to the printing time
\* step, returned with two rows
C16_Witness ==
  /\ pc = "idle"
  /\ lastOutcome = "Returned"
  /\ mPrintOutput
  /\ openMode = "define"
  /\ endTime = printStep
  /\ Len(committedTimes) = 1
  /\ fileTimes = <<0, endTime>>

\* C17: when Solve() has returned, the current time is the configured end
\* time, no solver remains, the solution held is the vector the solver
\* allocated last, which is live, and with output enabled the last row of
\* the file was written at the end time from that vector.
C17_ReturnedSolveHoldsLastSolution ==
  (pc = "idle" /\ lastOutcome = "Returned") =>
    /\ mCurrentTime = endTime
    /\ mpSolver = "null"
    /\ mSolution = Len(vecDestroys)
    /\ vecDestroys[mSolution] = 0
    /\ mPrintOutput =>
         /\ RowsWritten # <<>>
         /\ Last(RowsWritten) = <<"WriteOneStep", endTime, mSolution>>
         /\ Last(fileTimes) = endTime

\* a Solve() with output that returned after several intervals
C17_Witness ==
  /\ pc = "idle"
  /\ lastOutcome = "Returned"
  /\ mPrintOutput
  /\ Len(committedTimes) >= 2
  /\ mSolution = Len(vecDestroys)
  /\ Last(RowsWritten) = <<"WriteOneStep", mCurrentTime, mSolution>>

\* the number of times call c occurs in the sequence of calls s
Count(s, c) == Cardinality({i \in 1..Len(s) : s[i] = c})

\* the calls of names occur in s once each, in the order of names
InOrder(s, names) ==
  /\ \A i \in 1..Len(names) : Count(s, names[i]) = 1
  /\ \A i \in 1..(Len(names) - 1) : Before(s, names[i], names[i + 1])

\* what this step has added to the log of the running Solve()
Logged == SubSeq(solveLog', Len(solveLog) + 1, Len(solveLog'))

\* C18: a successful iteration sets the solver's times and initial
\* condition, calls the begin hook with the time before the step, invokes the
\* solver, releases the previous vector, advances the stepper and updates the
\* current time, notifies the modifiers with the new time and solution,
\* appends the row if and only if output is enabled, updates the progress
\* reporter and calls the end hook with the new time, in this order.  An
\* iteration whose solve failed notifies no modifier, appends no row and
\* calls no end hook.
C18_IterationOrder ==
  [][/\ IterationCommitted =>
          /\ InOrder(calls', <<"SetTimes", "SetInitialCondition",
                               "AtBeginningOfTimestep", "solver.Solve",
                               "Destroy(initial_condition)", "AdvanceOneTimeStep",
                               "mCurrentTime = stepper.GetTime",
                               "ProcessSolutionAtTimeStep",
                               "progress_reporter.Update", "OnEndOfTimestep">>)
          /\ Last(calls') = "OnEndOfTimestep"
          /\ Count(calls', "WriteOneStep") = IF mPrintOutput THEN 1 ELSE 0
          /\ mPrintOutput =>
               /\ Before(calls', "ProcessSolutionAtTimeStep", "WriteOneStep")
               /\ Before(calls', "WriteOneStep", "progress_reporter.Update")
               /\ fileTimes' = Append(fileTimes, mCurrentTime')
          /\ Logged[1] = <<"AtBeginningOfTimestep", mCurrentTime, 0>>
          /\ Logged[2] = <<"ProcessSolutionAtTimeStep", mCurrentTime', mSolution'>>
          /\ mPrintOutput => Logged[3] = <<"WriteOneStep", mCurrentTime', mSolution'>>
          /\ Logged[Len(Logged)] = <<"OnEndOfTimestep", mCurrentTime', 0>>
          /\ Len(Logged) = IF mPrintOutput THEN 4 ELSE 3
          /\ mCurrentTime' > mCurrentTime
     /\ SolverFails =>
          /\ Range(calls') \cap {"ProcessSolutionAtTimeStep", "WriteOneStep",
                                 "OnEndOfTimestep", "AdvanceOneTimeStep"} = {}
          /\ Logged = <<<<"AtBeginningOfTimestep", mCurrentTime, 0>>>>
          /\ UNCHANGED <<fileTimes, mCurrentTime, committedTimes>>]_vars

\* a Solve() with output after its second successful iteration
C18_Witness ==
  /\ pc = "loop"
  /\ mPrintOutput
  /\ Len(committedTimes) >= 2
  /\ Last(calls) = "OnEndOfTimestep"
  /\ "WriteOneStep" \in Range(calls)
  /\ Last(solveLog) = <<"OnEndOfTimestep", mCurrentTime, 0>>

ModifierCalls == {"InitialiseAtStart", "ProcessSolutionAtTimeStep", "FinaliseAtEnd"}

\* what a registered output modifier has received from a Solve() with log l
NotifiedIn(l) == SelectSeq(l, LAMBDA e : e[1] \in ModifierCalls)

\* C19: a registered output modifier receives from a Solve(): at the start
\* InitialiseAtStart and then ProcessSolutionAtTimeStep with the start time
\* and the initial condition; from every committed interval one
\* ProcessSolutionAtTimeStep with the new, greater time and the solution of
\* the interval; nothing from a failed interval; and when the loop is over
\* FinaliseAtEnd, once, before CloseFilesAndPostProcess.  A Solve() that has
\* returned after k intervals has notified it k + 3 times.
C19_ModifierNotifications ==
  /\ [][/\ (SolveCalled /\ pc' = "loop") =>
             NotifiedIn(solveLog') =
               <<<<"InitialiseAtStart", 0, 0>>,
                 <<"ProcessSolutionAtTimeStep", mCurrentTime, initial_condition'>>>>
        /\ IterationCommitted =>
             /\ NotifiedIn(solveLog') =
                  Append(NotifiedIn(solveLog),
                         <<"ProcessSolutionAtTimeStep", mCurrentTime', mSolution'>>)
             /\ mCurrentTime' > mCurrentTime
        /\ SolverFails => NotifiedIn(solveLog') = NotifiedIn(solveLog)
        /\ (pc = "loop" /\ lastOutcome' = "Returned") =>
             /\ NotifiedIn(solveLog') =
                  Append(NotifiedIn(solveLog), <<"FinaliseAtEnd", 0, 0>>)
             /\ Count(calls', "FinaliseAtEnd") = 1
             /\ Before(calls', "FinaliseAtEnd", "CloseFilesAndPostProcess")]_vars
  /\ [](lastOutcome = "Returned" =>
          /\ Len(NotifiedIn(solveLog)) = Len(committedTimes) + 3
          /\ Count([i \in 1..Len(solveLog) |-> solveLog[i][1]], "InitialiseAtStart") = 1
          /\ Count([i \in 1..Len(solveLog) |-> solveLog[i][1]], "FinaliseAtEnd") = 1
          /\ \A i \in 1..Len(committedTimes) :
               /\ NotifiedIn(solveLog)[i + 2][1] = "ProcessSolutionAtTimeStep"
               /\ NotifiedIn(solveLog)[i + 2][2] = committedTimes[i]
               /\ NotifiedIn(solveLog)[i + 1][2] < committedTimes[i])

\* a Solve() of several intervals that has returned
C19_Witness ==
  /\ pc = "idle"
  /\ lastOutcome = "Returned"
  /\ Len(committedTimes) >= 2
  /\ Len(NotifiedIn(solveLog)) = Len(committedTimes) + 3
  /\ Last(solveLog) = <<"FinaliseAtEnd", 0, 0>>

\* this step is the normal completion of Solve()
SolveReturns == pc = "loop" /\ lastOutcome' = "Returned"

\* C20 (as stated): every Solve() that completes runs the post-processing,
\* whatever the output setting.
C20_PostProcessingOnEveryCompletion ==
  [][SolveReturns => "post-processing" \in Range(calls')]_vars

\* C20 (amended): on normal completion Solve() deletes the solver and clears
\* its handle, finalises the progress reporter, calls FinaliseAtEnd on the
\* modifiers and then calls CloseFilesAndPostProcess(), in this order and
\* always; that call deletes the writer and then runs the post-processing
\* if output is enabled, and does nothing at all if output is disabled.
C20_PostProcessingOnlyWithOutput ==
  [][SolveReturns =>
       /\ InOrder(calls', <<"delete mpSolver", "mpSolver = nullptr",
                            "progress_reporter.PrintFinalising", "FinaliseAtEnd",
                            "CloseFilesAndPostProcess", "return">>)
       /\ mpSolver' = "null"
       /\ ("delete mpWriter" \in Range(calls')) = mPrintOutput
       /\ ("post-processing" \in Range(calls')) = mPrintOutput
       /\ mPrintOutput =>
            /\ InOrder(calls', <<"CloseFilesAndPostProcess", "delete mpWriter",
                                 "post-processing", "return">>)
            /\ mpWriter' = "null"
       /\ ~mPrintOutput => mpWriter' = mpWriter]_vars

\* a Solve() with output disabled that has returned without post-processing
C20_Witness ==
  /\ pc = "idle"
  /\ lastOutcome = "Returned"
  /\ ~mPrintOutput
  /\ "CloseFilesAndPostProcess" \in Range(calls)
  /\ "post-processing" \notin Range(calls)

\* ------------------------------------------------------------------- C21
\* an Initialise() call that returned: the only call that leaves the problem
\* idle, keeps the output switch and clears the observations
InitialiseReturned ==
  /\ pc = "idle" /\ pc' = "idle"
  /\ mPrintOutput' = mPrintOutput
  /\ lastOutcome' = "none"

\* nothing has been solved since Initialise(): no solution is retained and
\* the current time is 0
Fresh == mSolution = 0 /\ mCurrentTime = 0

\* C21: a successful Initialise() leaves the current time at 0 and no
\* solution retained, having destroyed the previous solution exactly once;
\* no call that fails before the loop changes that; and a Solve() that starts
\* from there builds a new initial condition and, with output on, opens the
\* checkpoint in define mode and writes the initial row at time 0, whatever
\* file the previous runs left.
C21_InitialiseStartsAfresh ==
  [][ /\ InitialiseReturned =>
           /\ Fresh'
           /\ mSolution # 0 =>
                /\ vecDestroys[mSolution] = 0
                /\ vecDestroys' = [vecDestroys EXCEPT ![mSolution] = 1]
           /\ mSolution = 0 => vecDestroys' = vecDestroys
      /\ (pc = "idle" /\ pc' = "idle" /\ Fresh) => Fresh'
      /\ (pc = "idle" /\ pc' = "loop" /\ Fresh) =>
           /\ initial_condition' = Len(vecDestroys) + 1
           /\ vecDestroys' = Append(vecDestroys, 0)
           /\ mPrintOutput =>
                /\ openMode' = "define"
                /\ initialRow' = <<0>>
                /\ fileExists' /\ fileTimes' = <<0>>
    ]_vars

\* Initialise() has been called after a run that left a checkpoint with rows
\* up to a later time: the solution of that run was destroyed, once
C21_Witness ==
  /\ pc = "idle" /\ lastOutcome = "none" /\ mPrintOutput
  /\ Fresh
  /\ fileExists /\ fileTimes # <<>> /\ Last(fileTimes) > 0
  /\ vecDestroys # <<>> /\ Last(vecDestroys) = 1
  /\ mpCardiacTissue = "live"

\* ------------------------------------------------------------------- C22
\* C22: over any sequence of Initialise() calls, failing or not, followed by
\* the destructor, at most one tissue is live at a time, no tissue is deleted
\* twice, and once the problem is destroyed every tissue that was created has
\* been deleted exactly once.
C22_TissueDeletedExactlyOnce ==
  /\ Cardinality({i \in 1..Len(tissues) : tissues[i] = 0}) <= 1
  /\ \A i \in 1..Len(tissues) : tissues[i] <= 1
  /\ pc = "destroyed" => \A i \in 1..Len(tissues) : tissues[i] = 1

\* ------------------------------------------------------------------- C23
\* a Solve() call that PreSolveChecks() lets through (lines 229-264)
SolvePassesChecks ==
  /\ SolveCalled
  /\ mpCardiacTissue # "null"
  /\ endTime' > mCurrentTime
  /\ ~(mPrintOutput /\ outputDirectory' = "")
  /\ endTime' % pdeStep' = 0

\* a default container is built in this step
DefaultBuilt ==
  mpDefaultBoundaryConditionsContainer' # mpDefaultBoundaryConditionsContainer

\* C23: a Solve() that gets past its checks leaves a container that is set as
\* it is and builds nothing; it builds a default container, exactly one, only
\* when none is set, and keeps it as the container.  No other call builds a
\* default container and only the setter changes which container is set, so a
\* later Solve() finds the default still set and reuses it.
C23_ContainerResolvedOnceInSolve ==
  [][ /\ SolvePassesChecks =>
           IF mpBoundaryConditionsContainer = "null"
             THEN /\ mpBoundaryConditionsContainer' = "default"
                  /\ mpDefaultBoundaryConditionsContainer' =
                       mpDefaultBoundaryConditionsContainer + 1
             ELSE /\ mpBoundaryConditionsContainer' = mpBoundaryConditionsContainer
                  /\ ~DefaultBuilt
      /\ ~SolvePassesChecks =>
           /\ ~DefaultBuilt
           /\ mpBoundaryConditionsContainer' # mpBoundaryConditionsContainer
                => /\ pc = "idle" /\ pc' = "idle" /\ lastOutcome' = "none"
                   /\ mpBoundaryConditionsContainer' \in {"null", "caller"}
    ]_vars

\* a resumed Solve() has started with the one default container that an
\* earlier Solve() built
C23_Witness ==
  /\ pc = "loop" /\ committedTimes = <<>>
  /\ mSolution # 0
  /\ mpBoundaryConditionsContainer = "default"
  /\ mpDefaultBoundaryConditionsContainer = 1

\* ------------------------------------------------------------------- C25
\* C25: from the step in which a Solve() reopens the checkpoint in extend
\* mode to the end of that run, every step leaves the rows the file already
\* holds where they are, with their time values, and at most appends rows
\* after them.
C25_ExtendKeepsRows ==
  [][openMode' = "extend" => fileExists' /\ IsPrefix(fileTimes, fileTimes')]_vars

\* a resumed run has reopened a file of at least two rows and appended to it
C25_Witness ==
  /\ openMode = "extend"
  /\ Len(fileAtOpen) >= 2
  /\ Len(fileTimes) > Len(fileAtOpen)
  /\ IsPrefix(fileAtOpen, fileTimes)

\* ------------------------------------------------------------------- C24
\* C24: a Solve() that reaches line 414 without a retained solution builds
\* one new vector, with the tissue built, holding for every node the voltage
\* of the node's cell as first unknown and, when there are two unknowns, zero
\* as the second; with a retained solution it builds nothing and takes that
\* very vector as initial condition.
C24_InitialConditionBuiltWhenNoSolution ==
  [][(pc = "idle" /\ pc' = "opened") =>
       IF mSolution = 0
         THEN /\ mpCardiacTissue = "live"
              /\ vecDestroys' = Append(vecDestroys, 0)
              /\ initial_condition' = Len(vecDestroys')
              /\ Len(vecData') = Len(vecDestroys')
              /\ \A n \in Nodes :
                   /\ Len(vecData'[initial_condition'][n]) = problemDim
                   /\ vecData'[initial_condition'][n][1] = cellVoltage[n]
                   /\ problemDim = 2 => vecData'[initial_condition'][n][2] = 0
         ELSE /\ initial_condition' = mSolution
              /\ vecDestroys' = vecDestroys
              /\ vecData' = vecData
    ]_vars

\* a two-unknown problem whose cells differ in voltage has built an initial
\* condition again, after an earlier run and a new Initialise()
C24_Witness ==
  /\ pc = "opened" /\ mSolution = 0
  /\ problemDim = 2
  /\ cellVoltage[1] # cellVoltage[2]
  /\ vecData[initial_condition] = [n \in Nodes |-> <<cellVoltage[n], 0>>]
  /\ \E v \in 1..Len(vecData) : vecData[v] = <<>>

Selected(name) ==
  CASE name = <<"Cai">> -> <<1, <<"Cai">>>>
    [] name = <<"Cai", "__IDX__", "0">> -> <<1, <<"Cai">>>>
    [] name = <<"Nai", "__IDX__", "1">> -> <<2, <<"Nai">>>>
    [] name = <<"Nai", "__IDX__", "2">> -> <<3, <<"Nai">>>>
    [] OTHER -> <<0, <<>>>>

\* C27: in every row a run writes, the value put for a requested variable at
\* a bath node is zero and no cell model was queried for that node; at any
\* other node it is the value, at the current time, of the variable named
\* without its suffix in the cell model the suffix selects (none or 0 the
\* first, 1 the second, 2 the third), and that is the only query made for the
\* pair; no value is ever put from a cell model of another suffix
C27_ExtraVariablesFromSelectedCell ==
  (pc = "loop" /\ rowsPut # <<>>) =>
    /\ Len(rowsPut) = 1 + Len(outputVariables)
    /\ \A i \in 1..Len(outputVariables), n \in Nodes :
         IF nodeRegion[n] = "bath"
           THEN /\ rowsPut[i + 1][2][n] = ZeroValue
                /\ \A q \in cellQueries : q[2] # n
           ELSE /\ Selected(outputVariables[i])[1] \in 1..3
                /\ rowsPut[i + 1][2][n] =
                     <<Selected(outputVariables[i])[1],
                       Selected(outputVariables[i])[2], mCurrentTime>>
                /\ <<Selected(outputVariables[i])[1], n,
                      Selected(outputVariables[i])[2], mCurrentTime>>
                       \in cellQueries
    /\ \A q \in cellQueries :
         \E i \in 1..Len(outputVariables) :
           q = <<Selected(outputVariables[i])[1], q[2],
                 Selected(outputVariables[i])[2], mCurrentTime>>

\* a row after the initial one has been written for a mesh with a bath node
\* and a tissue node, with a variable of the first and one of the third cell
\* model requested
C27_Witness ==
  /\ pc = "loop" /\ mCurrentTime > 0
  /\ nodeRegion = <<"bath", "tissue">>
  /\ outputVariables = << <<"Cai", "__IDX__", "0">>, <<"Nai", "__IDX__", "2">> >>
  /\ Len(rowsPut) = 3
  /\ rowsPut[3][2] = <<ZeroValue, <<3, <<"Nai">>, mCurrentTime>>>>
  /\ cellQueries = {<<1, 2, <<"Cai">>, mCurrentTime>>,
                    <<3, 2, <<"Nai">>, mCurrentTime>>}

\* ------------------------------------------------------------------- C28
\* the name of the column of the checkpoint with the given id
ColumnNamed(id) ==
  IF id + 1 \in 1..Len(fileColumns) THEN fileColumns[id + 1] ELSE <<"none">>

ColumnsResolved ==
  pc \in {"opened", "loop"} =>
    /\ ColumnNamed(mVoltageColumnId) = <<"V">>
    /\ Len(mExtraVariablesId) = Len(outputVariables)
    /\ \A i \in 1..Len(outputVariables) :
         ColumnNamed(mExtraVariablesId[i]) = outputVariables[i]
    /\ openMode = "define" =>
         /\ Len(fileColumns) = 1 + Len(outputVariables)
         /\ mVoltageColumnId = 0
         /\ \A i \in 1..Len(outputVariables) : mExtraVariablesId[i] = i
    /\ rowsPut # <<>> =>
         /\ Len(rowsPut) = 1 + Len(outputVariables)
         /\ rowsPut[1][1] = mVoltageColumnId
         /\ \A i \in 1..Len(outputVariables) :
              rowsPut[i + 1][1] = mExtraVariablesId[i]

\* C28: while a run writes, the voltage id names the column V and the list
\* of extra-variable ids has one entry per requested variable, in request
\* order, each naming that variable's column; in define mode the columns of
\* the file are V and one per requested variable, just created; every row
\* put uses these ids.  Opening in extend mode defines no column, and no
\* step of the run after the opening changes an id or a column
C28_ColumnIdsResolvedOncePerRun ==
  /\ []ColumnsResolved
  /\ [][/\ (pc = "idle" /\ pc' = "opened" /\ openMode' = "extend") =>
             fileColumns' = fileColumns
        /\ pc \in {"opened", "loop"} =>
             UNCHANGED <<mVoltageColumnId, mExtraVariablesId, fileColumns>>
       ]_vars

\* a run that extends a file whose columns an earlier run defined in another
\* order than this run requests them has put a row
C28_Witness ==
  /\ pc = "loop" /\ openMode = "extend"
  /\ fileColumns = << <<"V">>, <<"Cai">>, <<"Nai", "__IDX__", "1">> >>
  /\ outputVariables = << <<"Nai", "__IDX__", "1">>, <<"Cai">> >>
  /\ mExtraVariablesId = <<2, 1>>
  /\ Len(rowsPut) = 3
  /\ rowsPut[2][1] = 2 /\ rowsPut[3][1] = 1

\* ------------------------------------------------------------------- C29
\* C29: a Solve() on a configuration whose caller requested output in the
\* original node ordering attempts the permutation when it opens its writer,
\* whatever an earlier Solve() met: the permutation is applied or found
\* inapplicable, and the run goes on
C29_DisablingScopedToTheRun ==
  [][(pc = "idle" /\ pc' = "opened" /\ orderingRequested) =>
       orderingOutcome' \in {"applied", "inapplicable"}
    ]_vars

C32_SkippedInitialRowIsInFile ==
  [][(pc = "idle" /\ pc' = "loop" /\ openMode' = "extend" /\ initialRow' = <<>>) =>
       (fileTimes # <<>> /\ Last(fileTimes) = mCurrentTime)
    ]_vars

\* ------------------------------------------------------------------- C33
\* C33: whenever no Solve() is running (none was called yet, or the last one
\* returned or threw: a rejection by PreSolveChecks, a failure while the
\* writer was initialised, a solver failure) the solver handle is null, so
\* the next Solve() finds no solver and no pointer to a deleted one
C33_SolverNullAfterEverySolve ==
  pc = "idle" => mpSolver = "null"

\* ------------------------------------------------------------------- C34
\* C34: at every moment, whatever Initialise(), PrintOutput() and Solve()
\* calls were made (completed, rejected, failed, resumed), the times of the
\* rows of the checkpoint file are strictly increasing
C34_RowTimesStrictlyIncreasing ==
  \A i \in 1..Len(fileTimes), j \in 1..Len(fileTimes) :
    i < j => fileTimes[i] < fileTimes[j]

\* a resumed Solve() that extended the file has returned: the file holds the
\* rows of the earlier run and, after a gap, the row of this one
C34_Witness ==
  /\ pc = "idle" /\ lastOutcome = "Returned"
  /\ openMode = "extend"
  /\ fileTimes = <<0, 1, 3>>

\* ------------------------------------------------------------------- C35
\* C35: on every process that has left Solve() the retained solution is the
\* field at that process's current time, and the processes that have left
\* retain solutions for the same time
C35_SolutionIsAtCurrentTime ==
  \A p, q \in Procs :
    Left(p) =>
      /\ ProcSolutionTime(p) = procTime[p]
      /\ Left(q) => ProcSolutionTime(q) = ProcSolutionTime(p)

\* ------------------------------------------------------------------- C36
\* C36: when a Solve() has thrown a solver failure to its caller, a registered
\* output modifier that received InitialiseAtStart from it has received
\* FinaliseAtEnd from it as well
C36_FailedSolveFinalisesModifiers ==
  (pc = "idle" /\ lastOutcome = "SolverFailure") =>
    \A i \in 1..Len(solveLog) :
      solveLog[i][1] = "InitialiseAtStart" =>
        \E j \in (i + 1)..Len(solveLog) : solveLog[j][1] = "FinaliseAtEnd"

\* ------------------------------------------------------------------- C37
\* C37: the caller's mesh is never deleted; no mesh the problem constructed
\* is deleted twice, and each has been deleted once the problem is
\* destroyed; between calls the problem never holds a mesh whose
\* construction failed; SetMesh() replaces no mesh that is already set
C37_MeshOwnedAndDeletedOnce ==
  /\ [](/\ ~callerMeshDeleted
        /\ \A i \in 1..Len(meshes) : meshes[i] <= 1
        /\ pc = "destroyed" => \A i \in 1..Len(meshes) : meshes[i] = 1
        /\ pc = "idle" => ~meshHalfBuilt)
  /\ [][(mpMesh' # mpMesh /\ mpMesh' = "caller") => mpMesh = "null"]_vars

\* ------------------------------------------------------------------- C38
\* C38: after the CloseFilesAndPostProcess() of a completed and of a failed
\* Solve() alike: with output off nothing was done; with output on the writer
\* was deleted first and its handle is null, the post-processing writer ran
\* after that exactly when post-processing is requested, and after these each
\* converter ran once if it is requested and all nodes are output, and not at
\* all otherwise
C38_CloseSequence ==
  closePath \in {"completed", "failed"} =>
    IF ~closeConfig.print
      THEN closeLog = <<>> /\ closeWriter = "null"
      ELSE /\ closeLog[1] = "delete mpWriter"
           /\ Count(closeLog, "delete mpWriter") = 1
           /\ closeWriter = "null"
           /\ Count(closeLog, "WritePostProcessingFiles") =
                (IF closeConfig.post THEN 1 ELSE 0)
           /\ closeConfig.post => closeLog[2] = "WritePostProcessingFiles"
           /\ \A i \in 1..Len(Converters) :
                /\ Count(closeLog, Converters[i]) =
                     (IF ~closeConfig.subset /\ Converters[i] \in closeConfig.formats
                        THEN 1 ELSE 0)
                /\ ~Before(closeLog, Converters[i], "WritePostProcessingFiles")
           /\ Len(closeLog) =
                1 + (IF closeConfig.post THEN 1 ELSE 0)
                  + (IF closeConfig.subset THEN 0
                     ELSE Cardinality(closeConfig.formats))

\* a failed Solve() with output, post-processing and all four converters
\* requested, and all nodes output
C38_Witness ==
  /\ closePath = "failed"
  /\ closeConfig.print /\ closeConfig.post /\ ~closeConfig.subset
  /\ Cardinality(closeConfig.formats) = 4
  /\ Len(closeLog) = 6
  /\ closeWriter = "null"

\* ------------------------------------------------------------------- C39
\* C39: the cell data is refreshed before the first time step and at the end
\* of every time step, so between time steps every cell of the population
\* has as item 0 of its CellData its volume in the current geometry, and the
\* stored items are those of the cells of the population; each refresh
\* updates the population first, regenerates the tessellation of a
\* mesh-based population next, and reads one volume per cell only then, from
\* a tessellation of the current geometry that has every cell
C39_CellDataHoldsCurrentVolumes ==
  simPhase = "loop" =>
    /\ DOMAIN cellData = population.cells
    /\ \A c \in population.cells : cellData[c] = <<c, population.version>>
    /\ refreshLog[1] = "Update"
    /\ Count(refreshLog, "Update") = 1
    /\ Count(refreshLog, "CreateVoronoiTessellation") =
         (IF population.kind = "mesh" THEN 1 ELSE 0)
    /\ ~Before(refreshLog, "GetVolumeOfCell", "CreateVoronoiTessellation")
    /\ Count(refreshLog, "GetVolumeOfCell") = Cardinality(population.cells)
    /\ population.kind = "mesh" =>
         /\ population.tess = population.version
         /\ population.tessCells = population.cells

\* a mesh-based population in which two cells divided and one died in the
\* last time step has been refreshed
C39_Witness ==
  /\ simPhase = "loop"
  /\ population.kind = "mesh"
  /\ population.version = 2
  /\ population.cells = {2, 3, 4}
  /\ cellData[4] = <<4, 2>>

\* ------------------------------------------------------------------- C40
\* C40: every T1 swap location is written in exactly one record, that of the
\* first Visit() after the swap: the coordinates of the records, one record
\* after the other, followed by those of the swaps not yet visited, are the
\* coordinates of all the swaps in the order they occurred; each record
\* starts with the number of swaps since the previous Visit() followed by
\* their coordinates; the list of the mesh is empty after every Visit(); a
\* Visit() on another kind of population writes nothing and changes nothing
RECURSIVE C40_RecordedCoordinates(_)
C40_RecordedCoordinates(records) ==
  IF records = <<>> THEN <<>>
  ELSE Tail(Head(records)) \o C40_RecordedCoordinates(Tail(records))

C40_EachSwapWrittenOnce ==
  /\ [](/\ C40_RecordedCoordinates(outStream) \o Coordinates(mLocationsOfT1Swaps)
            = Coordinates(swapHistory)
        /\ visitedPopulation # "VertexBased" => outStream = <<>>)
  /\ [][visits' = visits + 1 =>
          /\ mLocationsOfT1Swaps' = <<>>
          /\ IF visitedPopulation = "VertexBased"
               THEN /\ Len(outStream') = Len(outStream) + 1
                    /\ SubSeq(outStream', 1, Len(outStream)) = outStream
                    /\ Last(outStream') =
                         <<Len(mLocationsOfT1Swaps)>>
                           \o Coordinates(mLocationsOfT1Swaps)
               ELSE UNCHANGED <<outStream, mLocationsOfT1Swaps,
                                visitedPopulation, swapHistory>>]_vars

\* two swaps were written by one Visit(), none by the next, a third by the
\* one after
C40_Witness ==
  /\ visitedPopulation = "VertexBased"
  /\ outStream = <<<<2, 0, 1, 1, 1>>, <<0>>, <<1, 0, 1>>>>
  /\ mLocationsOfT1Swaps = <<>>

====
